---------------------------- MODULE Spec2Model ----------------------------
(***************************************************************************)
(* Model of the payee-extraction repository:                               *)
(*   - app/parsers/statement_parser.py : StatementParser (statement path)  *)
(*   - src/extract_payee.py            : payee / check-number / confidence *)
(*   - src/fetch_images.py             : main (image fetch and OCR update) *)
(*   - app/main.py                     : seed_checks (statement upload)    *)
(*   - src/reviewer.py                 : load_csv, save to original file   *)
(*                                                                         *)
(* Python strings are TLA+ strings; the character at position i of s is    *)
(* SubSeq(s, i, i).  Python floats (amounts, amount scores, the payee      *)
(* quality and the confidence) are IEEE-754 doubles, rounded as Python     *)
(* rounds them.  None is a value that no str of the model equals.          *)
(***************************************************************************)
EXTENDS Integers, Sequences, FiniteSets, TLC

VARIABLES
    \* ---- statement path: one entry per run of parse_statement (run id -> value)
    df,                 \* the grid read by pd.read_csv: rows of string cells
    sections,           \* the sections found by the scan, in document order
    sec,                \* 1-based number of the section being processed
    response,           \* what the remote classifier did for that section
    col_map,            \* the mapping parse_csv_section uses for that section
    calls,              \* log of classifier invocations: <<"llm" | "fallback", sec>>
    all_checks,         \* the records kept so far
    seen_check_numbers, \* the identifiers seen so far
    processed,          \* history: per processed section, its mapping and records
    result,             \* the value parse_statement returned
    exported,           \* the rows written to <name>_parsed.csv
    spc,                \* position inside parse_statement
    \* ---- image path: extract_check_info and the functions it calls
    full_text,      \* OCR full text (fullTextAnnotation.text)
    texts,          \* OCR tokens (textAnnotations), texts[1] duplicates the full text
    payee_name,     \* result of extract_payee_name
    check_number,   \* result of extract_check_number
    confidence,     \* result of calculate_confidence, a double
    strategy,       \* which strategy of the last extractor produced its result
    opc,            \* position inside extract_check_info
    \* ---- payee cleaning / validity, applied to one candidate
    cand,           \* the payee candidate string
    cleaned,        \* clean_payee_name(cand)
    recleaned,      \* clean_payee_name(cleaned)
    valid,          \* is_valid_payee(cand)
    cpc,            \* position of the cleaning harness
    \* ---- image fetch: fetch_images.main on a parsed CSV
    fetch_df,       \* df: the rows of the parsed CSV, in memory
    csv_file,       \* the rows last written to the CSV file
    idx,            \* the row the loop is at (1-based)
    attempt,        \* the search attempt for that row
    found,          \* the local found: "unbound", "True" or "False"
    page,           \* what the browser shows: "list" or the check whose record is open
    ocr_tasks,      \* the queued OCR tasks <<front_path, check number>>
    images,         \* image file -> the check whose image it holds (None: no file)
    relogins,       \* number of time-based relogins so far
    clicked,        \* history: rows whose record link was clicked
    reached,        \* history: rows for which the capture block was entered
    updated,        \* history: rows whose image paths were written
    ocr_writes,     \* history: [task, row] for every OCR result written to a row
    fpc,            \* position inside main
    \* ---- upload: the seed_checks endpoint
    upload,         \* the request: file name and kind of body
    disk,           \* the files in the working directory
    statement_id,   \* the id generated for the request
    http,           \* status of the response (0: none yet)
    served,         \* number of requests received
    qpc             \* position inside seed_checks

stmtVars  == <<df, sections, sec, response, col_map, calls, all_checks,
               seen_check_numbers, processed, result, exported, spc>>
ocrVars   == <<full_text, texts, payee_name, check_number, confidence, strategy, opc>>
cleanVars == <<cand, cleaned, recleaned, valid, cpc>>
fetchVars == <<fetch_df, csv_file, idx, attempt, found, page, ocr_tasks, images, relogins,
               clicked, reached, updated, ocr_writes, fpc>>
seedVars  == <<upload, disk, statement_id, http, served, qpc>>
vars      == <<stmtVars, ocrVars, cleanVars, fetchVars, seedVars>>

\* Python's None.  The string ends with the control character DEL (code 127),
\* which no str of the model holds (see Alphabet): None differs from every
\* str, the str 'None' included.
None == "None"
NotFound == "Not found"

-----------------------------------------------------------------------------
(*************************** Python str primitives *************************)

\* Printable ASCII in code-point order: 32..95 and 97..126 (the backquote, 96,
\* cannot be written in a TLA+ string and is left out of the alphabet).
AsciiLow == " !\"#$%&'()*+,-./0123456789:;<=>?@ABCDEFGHIJKLMNOPQRSTUVWXYZ[\\]^_"
AsciiHigh == "abcdefghijklmnopqrstuvwxyz{|}~"

At(s, i) == SubSeq(s, i, i)
Drop(s, n) == SubSeq(s, n + 1, Len(s))
Take(s, n) == SubSeq(s, 1, n)

\* ord(c): the code point of a one-character string.
CodeTable ==
    [c \in {At(AsciiLow, i) : i \in 1..Len(AsciiLow)}
           \cup {At(AsciiHigh, i) : i \in 1..Len(AsciiHigh)}
           \cup {"\t", "\n", "\r", "\f"} |->
        CASE c = "\t" -> 9
          [] c = "\n" -> 10
          [] c = "\f" -> 12
          [] c = "\r" -> 13
          [] \E i \in 1..Len(AsciiLow) : At(AsciiLow, i) = c ->
                31 + (CHOOSE i \in 1..Len(AsciiLow) : At(AsciiLow, i) = c)
          [] OTHER ->
                96 + (CHOOSE i \in 1..Len(AsciiHigh) : At(AsciiHigh, i) = c)]
Code(c) == CodeTable[c]
\* chr(n), for the letters
Chr(n) == IF n <= 95 THEN At(AsciiLow, n - 31) ELSE At(AsciiHigh, n - 96)

Alphabet == DOMAIN CodeTable

\* Character classes, as sets of one-character strings
Digits == {"0", "1", "2", "3", "4", "5", "6", "7", "8", "9"}
UpperAZ == {c \in Alphabet : Code(c) >= 65 /\ Code(c) <= 90}
LowerAZ == {c \in Alphabet : Code(c) >= 97 /\ Code(c) <= 122}
Letters == UpperAZ \cup LowerAZ
\* \s of re, and the characters str.strip() / str.split() treat as whitespace
Spaces == {" ", "\t", "\n", "\r", "\f"}

IsDigit(c) == c \in Digits
IsAlpha(c) == c \in Letters
\* c.isalnum()
IsAlnum(c) == c \in Letters \cup Digits
IsSpace(c) == c \in Spaces

UpperChar(c) == IF c \in LowerAZ THEN Chr(Code(c) - 32) ELSE c
LowerChar(c) == IF c \in UpperAZ THEN Chr(Code(c) + 32) ELSE c

\* s.upper(), s.lower()
RECURSIVE Upper(_)
Upper(s) == IF s = "" THEN "" ELSE UpperChar(At(s, 1)) \o Upper(Drop(s, 1))
RECURSIVE Lower(_)
Lower(s) == IF s = "" THEN "" ELSE LowerChar(At(s, 1)) \o Lower(Drop(s, 1))

\* Length of the run of characters of class S that starts at position i of s
\* (LeadRun, going right) or ends there (TrailRun, going left).
RECURSIVE LeadRun(_, _, _)
LeadRun(s, i, S) ==
    IF i <= Len(s) /\ At(s, i) \in S THEN 1 + LeadRun(s, i + 1, S) ELSE 0
RECURSIVE TrailRun(_, _, _)
TrailRun(s, i, S) ==
    IF i >= 1 /\ At(s, i) \in S THEN 1 + TrailRun(s, i - 1, S) ELSE 0

\* s.strip(chars), chars given as a set
StripBy(s, S) ==
    LET a == LeadRun(s, 1, S)
        b == TrailRun(s, Len(s), S)
    IN  IF a >= Len(s) THEN "" ELSE SubSeq(s, a + 1, Len(s) - b)
\* s.strip()
Strip(s) == StripBy(s, Spaces)

\* s.startswith(p), s.endswith(p)
StartsWith(s, p) == Len(p) <= Len(s) /\ Take(s, Len(p)) = p
EndsWith(s, p) == Len(p) <= Len(s) /\ Drop(s, Len(s) - Len(p)) = p
\* p in s
Contains(s, p) == \E i \in 0..(Len(s) - Len(p)) : SubSeq(s, i + 1, i + Len(p)) = p
\* re.search(r'[S]', s)
HasChar(s, S) == \E i \in 1..Len(s) : At(s, i) \in S
AllChars(s, S) == \A i \in 1..Len(s) : At(s, i) \in S

\* '$' of re without MULTILINE: the end of the string, or just before a final newline
AtEnd(s, i) == i = Len(s) + 1 \/ (i = Len(s) /\ At(s, i) = "\n")

\* s.split(sep) for a one-character separator
RECURSIVE SplitOn(_, _)
SplitOn(s, sep) ==
    LET n == LeadRun(s, 1, Alphabet \ {sep})
    IN  IF n = Len(s) THEN <<s>>
        ELSE <<Take(s, n)>> \o SplitOn(Drop(s, n + 1), sep)

\* s.split(): the maximal runs of non-whitespace
RECURSIVE SplitWs(_)
SplitWs(s) ==
    LET a == LeadRun(s, 1, Spaces)
        t == Drop(s, a)
        n == LeadRun(t, 1, Alphabet \ Spaces)
    IN  IF t = "" THEN <<>> ELSE <<Take(t, n)>> \o SplitWs(Drop(t, n))

\* sep.join(parts)
RECURSIVE Join(_, _)
Join(parts, sep) ==
    IF parts = <<>> THEN ""
    ELSE IF Len(parts) = 1 THEN parts[1]
    ELSE parts[1] \o sep \o Join(Tail(parts), sep)

\* a < b for Python str: code points, position by position
RECURSIVE StrLess(_, _)
StrLess(a, b) ==
    IF b = "" THEN FALSE
    ELSE IF a = "" THEN TRUE
    ELSE IF At(a, 1) = At(b, 1) THEN StrLess(Drop(a, 1), Drop(b, 1))
    ELSE Code(At(a, 1)) < Code(At(b, 1))

Min2(a, b) == IF a <= b THEN a ELSE b
Max2(a, b) == IF a >= b THEN a ELSE b

\* F(x); the value of x is computed once, however often F uses it
With(x, F(_)) == F(x)

\* s[i-1 : i-1+n], empty when it would run past the end of s
Mid(s, i, n) == IF i >= 1 /\ i + n - 1 <= Len(s) THEN SubSeq(s, i, i + n - 1) ELSE ""

\* The least element of a non-empty set of integers
MinOf(S) == CHOOSE x \in S : \A y \in S : x <= y

-----------------------------------------------------------------------------
(********************* extract_payee.py: payee cleaning ********************)

\* re.sub(r'^\s*(?:RD\s+)?(?:OF\s+)?', '', payee, flags=re.IGNORECASE)
StripLeadingMarkers(payee) ==
    LET i == 1 + LeadRun(payee, 1, Spaces)
        rdWs == LeadRun(payee, i + 2, Spaces)
        j == IF Upper(Mid(payee, i, 2)) = "RD" /\ rdWs >= 1 THEN i + 2 + rdWs ELSE i
        ofWs == LeadRun(payee, j + 2, Spaces)
        k == IF Upper(Mid(payee, j, 2)) = "OF" /\ ofWs >= 1 THEN j + 2 + ofWs ELSE j
    IN  Drop(payee, k - 1)

\* payee.strip('.,;: \t\n')
PunctChars == {".", ",", ";", ":", " ", "\t", "\n"}

\* re.sub(r'^\$\s*', '', payee)
StripLeadingDollar(payee) ==
    IF StartsWith(payee, "$") THEN Drop(payee, 1 + LeadRun(payee, 2, Spaces)) ELSE payee

\* r'\s*\$.*$' matched at position i: where the match ends (exclusive), 0 if none.
\* '.' does not match a newline.
DollarTailEnd(payee, i) ==
    LET d == i + LeadRun(payee, i, Spaces)
        e == d + 1 + LeadRun(payee, d + 1, Alphabet \ {"\n"})
    IN  IF d <= Len(payee) /\ At(payee, d) = "$" /\ AtEnd(payee, e) THEN e ELSE 0

\* re.sub(r'\s*\$.*$', '', payee): the leftmost match is removed
StripDollarTail(payee) ==
    LET starts == {i \in 1..Len(payee) : DollarTailEnd(payee, i) > 0}
    IN  IF starts = {} THEN payee
        ELSE LET i == MinOf(starts)
             IN  Take(payee, i - 1) \o Drop(payee, DollarTailEnd(payee, i) - 1)

\* r'\s+\d+[,.]?\d*\s*$' matches at position i
NumericTailAt(payee, i) ==
    LET w == LeadRun(payee, i, Spaces)
        d1 == LeadRun(payee, i + w, Digits)
        q == i + w + d1
        sep == IF q <= Len(payee) /\ At(payee, q) \in {",", "."} THEN 1 ELSE 0
        d2 == LeadRun(payee, q + sep, Digits)
        w2 == LeadRun(payee, q + sep + d2, Spaces)
    IN  w >= 1 /\ d1 >= 1 /\ q + sep + d2 + w2 = Len(payee) + 1

\* re.sub(r'\s+\d+[,.]?\d*\s*$', '', payee)
StripNumericTail(payee) ==
    LET starts == {i \in 1..Len(payee) : NumericTailAt(payee, i)}
    IN  IF starts = {} THEN payee ELSE Take(payee, MinOf(starts) - 1)

\* Mutant: the punctuation strip of line 251 left out
clean_payee_name_keeps_punct(payee) ==
    LET p1 == StripLeadingMarkers(payee)
        p3 == StripLeadingDollar(p1)
        p4 == StripDollarTail(p3)
        p5 == StripNumericTail(p4)
    IN  Strip(p5)

clean_payee_name(payee) ==
    LET p1 == StripLeadingMarkers(payee)
        p2 == StripBy(p1, PunctChars)
        p3 == StripLeadingDollar(p2)
        p4 == StripDollarTail(p3)
        p5 == StripNumericTail(p4)
    IN  Strip(p5)

-----------------------------------------------------------------------------
(******************** extract_payee.py: payee validity *********************)

\* re.match(r'^\d{1,2}[-/]\d{1,2}[-/]\d{2,4}$', s)
IsDateShaped(s) ==
    \E a \in 1..2, b \in 1..2, c \in 2..4 :
        /\ Len(s) >= a + b + c + 2
        /\ AllChars(SubSeq(s, 1, a), Digits)
        /\ At(s, a + 1) \in {"-", "/"}
        /\ AllChars(SubSeq(s, a + 2, a + 1 + b), Digits)
        /\ At(s, a + b + 2) \in {"-", "/"}
        /\ AllChars(SubSeq(s, a + b + 3, a + b + 2 + c), Digits)
        /\ AtEnd(s, a + b + c + 3)

\* re.search(r",\s*[A-Z]{2}(?:\s*\d{5})?$", s)
HasLocationSuffix(s) ==
    \E i \in 1..Len(s) :
        LET q == i + 1 + LeadRun(s, i + 1, Spaces)
            r == q + 2
            z == r + LeadRun(s, r, Spaces)
        IN  /\ At(s, i) = ","
            /\ r <= Len(s) + 1
            /\ AllChars(SubSeq(s, q, q + 1), UpperAZ)
            /\ \/ AtEnd(s, r)
               \/ /\ z + 4 <= Len(s)
                  /\ AllChars(SubSeq(s, z, z + 4), Digits)
                  /\ AtEnd(s, z + 5)

amount_words ==
    {"ZERO", "ONE", "TWO", "THREE", "FOUR", "FIVE",
     "SIX", "SEVEN", "EIGHT", "NINE", "TEN", "ELEVEN", "TWELVE",
     "THIRTEEN", "FOURTEEN", "FIFTEEN", "SIXTEEN", "SEVENTEEN", "EIGHTEEN", "NINETEEN",
     "TWENTY", "THIRTY", "FORTY", "FIFTY", "SIXTY", "SEVENTY", "EIGHTY", "NINETY",
     "HUNDRED", "THOUSAND", "MILLION", "BILLION", "DOLLARS"}

\* The location test of is_valid_payee, on payee.strip().upper()
IsLocation(payee) == HasLocationSuffix(Upper(Strip(payee)))

\* Mutant: the location test of line 238 left out
is_valid_payee_no_location(payee) ==
    LET words == SplitWs(Upper(payee))
    IN  /\ payee # ""
        /\ payee # NotFound
        /\ Len(payee) >= 2
        /\ ~AllChars(payee, Digits \cup Spaces \cup {".", ","})
        /\ ~IsDateShaped(payee)
        /\ ~(\A k \in 1..Len(words) : words[k] \in amount_words)
        /\ HasChar(payee, Letters)

is_valid_payee(payee) ==
    LET words == SplitWs(Upper(payee))
    IN  /\ payee # ""
        /\ payee # NotFound
        /\ Len(payee) >= 2
        /\ ~AllChars(payee, Digits \cup Spaces \cup {".", ","})
        /\ ~IsDateShaped(payee)
        /\ ~(\A k \in 1..Len(words) : words[k] \in amount_words)
        /\ ~IsLocation(payee)
        /\ HasChar(payee, Letters)

-----------------------------------------------------------------------------
(*********************** Python float: IEEE-754 doubles ********************)

\* A Python float is an IEEE-754 double.  A finite double is s * m * 2^e for a
\* sign s, a natural m below 2^53 and e >= -1074, in normal form: m has 53
\* bits, or e = -1074 (zero and the subnormal doubles), so that equal doubles
\* are equal records (0.0 and -0.0 differ in s).  k tells a number from inf,
\* nan, a ValueError and None.  m does not fit a TLC integer: a natural is the
\* sequence of its digits in base 2^15 = 32768, lowest first, without a
\* highest digit 0, and <<>> is 0.
Num(s, m, e) == [k |-> "num", s |-> s, m |-> m, e |-> e]
Zero(s) == Num(s, <<>>, -1074)
Inf(sign) == [k |-> "inf", s |-> sign, m |-> <<>>, e |-> 0]
NaN == [k |-> "nan", s |-> 1, m |-> <<>>, e |-> 0]
ValueError == [k |-> "ValueError", s |-> 1, m |-> <<>>, e |-> 0]
NoAmount == [k |-> None, s |-> 1, m |-> <<>>, e |-> 0]

\* 10^n for n in 0..4 and 2^n for n in 0..15
Pow10(n) == <<1, 10, 100, 1000, 10000>>[n + 1]
Pow2(n) == <<1, 2, 4, 8, 16, 32, 64, 128, 256, 512, 1024, 2048, 4096, 8192,
             16384, 32768>>[n + 1]
\* The number of bits of a digit n
BitLen(n) == CHOOSE b \in 0..15 : n < Pow2(b) /\ (b = 0 \/ n >= Pow2(b - 1))

\* ---- arithmetic of naturals.  Sums, differences and shifts are written
\* digit by digit; a product or quotient by a small number works through the
\* digits by halves, the carry passing from one half to the next, so that the
\* recursion stays shallow.
\* The digits a without the highest digits that are 0
Trimmed(a) ==
    SubSeq(a, 1, CHOOSE n \in 0..Len(a) :
                     (n = 0 \/ a[n] # 0) /\ \A i \in (n + 1)..Len(a) : a[i] = 0)
\* The same for digits given as a function on 1..n: each is computed once
BigNorm(a) == Trimmed(a \o <<>>)
RECURSIVE BigOfInt(_)
BigOfInt(n) == IF n = 0 THEN <<>> ELSE <<n % 32768>> \o BigOfInt(n \div 32768)
\* Digit i of a, 0 above its highest digit
Digit(a, i) == IF i <= Len(a) THEN a[i] ELSE 0
BigBitLen(a) == IF a = <<>> THEN 0 ELSE 15 * (Len(a) - 1) + BitLen(a[Len(a)])
BigOdd(a) == a # <<>> /\ a[1] % 2 = 1
BigLess(a, b) ==
    \/ Len(a) < Len(b)
    \/ /\ Len(a) = Len(b)
       /\ \E i \in 1..Len(a) : a[i] < b[i] /\ \A j \in (i + 1)..Len(a) : a[j] = b[j]
\* The carry into digit i of a + b + c (c is 0 or 1): a digit below i
\* overflows and every digit between passes the carry on
Carry(a, b, c, i) ==
    IF i = 1 THEN c
    ELSE IF \E j \in 1..(i - 1) :
               /\ Digit(a, j) + Digit(b, j) + (IF j = 1 THEN c ELSE 0) >= 32768
               /\ \A m \in (j + 1)..(i - 1) : Digit(a, m) + Digit(b, m) = 32767
    THEN 1 ELSE 0
\* a + b + c
BigAdd(a, b, c) ==
    BigNorm([i \in 1..(Max2(Len(a), Len(b)) + 1) |->
                (Digit(a, i) + Digit(b, i) + Carry(a, b, c, i)) % 32768])
\* The borrow from digit i of a - b
Borrow(a, b, i) ==
    IF \E j \in 1..(i - 1) :
          /\ Digit(a, j) < Digit(b, j)
          /\ \A m \in (j + 1)..(i - 1) : Digit(a, m) = Digit(b, m)
    THEN 1 ELSE 0
\* a - b for a >= b
BigSub(a, b) ==
    BigNorm([i \in 1..Len(a) |->
                (Digit(a, i) - Digit(b, i) - Borrow(a, b, i) + 32768) % 32768])
\* a * 2^n, the floor of a / 2^n, and whether 2^n divides a
BigShl(a, n) ==
    BigNorm([i \in 1..(Len(a) + n \div 15 + 1) |->
                IF i <= n \div 15 THEN 0
                ELSE ((Digit(a, i - n \div 15) * Pow2(n % 15)) % 32768)
                     + (IF i - n \div 15 = 1 THEN 0
                        ELSE (Digit(a, i - n \div 15 - 1) * Pow2(n % 15)) \div 32768)])
BigShr(a, n) ==
    BigNorm([i \in 1..Max2(0, Len(a) - n \div 15) |->
                (Digit(a, i + n \div 15) \div Pow2(n % 15))
                + (Digit(a, i + n \div 15 + 1) % Pow2(n % 15)) * Pow2(15 - (n % 15))])
BigLowZero(a, n) ==
    /\ \A i \in 1..Min2(n \div 15, Len(a)) : a[i] = 0
    /\ n \div 15 < Len(a) => a[n \div 15 + 1] % Pow2(n % 15) = 0
\* The digits of a * k + c for 1 <= k <= 32768, as many as a has, followed by
\* the carry above them
RECURSIVE MulAddDigits(_, _, _)
MulAddUpper(lo, hi, k) ==
    SubSeq(lo, 1, Len(lo) - 1) \o MulAddDigits(hi, k, lo[Len(lo)])
MulAddDigits(a, k, c) ==
    IF Len(a) = 0 THEN <<c>>
    ELSE IF Len(a) = 1 THEN <<(a[1] * k + c) % 32768, (a[1] * k + c) \div 32768>>
    ELSE MulAddUpper(MulAddDigits(SubSeq(a, 1, Len(a) \div 2), k, c),
                     SubSeq(a, Len(a) \div 2 + 1, Len(a)), k)
\* a * k + c
BigMulAdd(a, k, c) == BigNorm(MulAddDigits(a, k, c))
\* a, highest digit first
Reverse(a) == [i \in 1..Len(a) |-> a[Len(a) + 1 - i]] \o <<>>
\* For a with its highest digit first and r < k <= 32768: the digits, highest
\* first, of the quotient of r * 32768^Len(a) + a by k, followed by the
\* remainder
RECURSIVE DivDigits(_, _, _)
DivLower(hi, lo, k) ==
    SubSeq(hi, 1, Len(hi) - 1) \o DivDigits(lo, k, hi[Len(hi)])
DivDigits(a, k, r) ==
    IF Len(a) = 0 THEN <<r>>
    ELSE IF Len(a) = 1 THEN <<(r * 32768 + a[1]) \div k, (r * 32768 + a[1]) % k>>
    ELSE DivLower(DivDigits(SubSeq(a, 1, Len(a) \div 2), k, r),
                  SubSeq(a, Len(a) \div 2 + 1, Len(a)), k)
\* The quotient q and the remainder r of a by k
QuotRem(a, d) == [q |-> BigNorm(Reverse(SubSeq(d, 1, Len(a)))), r |-> d[Len(a) + 1]]
BigDivMod(a, k) == QuotRem(a, DivDigits(Reverse(a), k, 0))
\* a * 10^n, by halves of n
RECURSIVE BigMulPow10(_, _)
BigMulPow10(a, n) ==
    IF n = 0 \/ a = <<>> THEN a
    ELSE IF n <= 4 THEN BigMulAdd(a, Pow10(n), 0)
    ELSE BigMulPow10(BigMulPow10(a, n \div 2), n - n \div 2)
\* The floor q of a / 10^n, by halves of n; r tells whether a digit was lost
\* (rest: whether one was lost before)
RECURSIVE BigDivPow10(_, _, _)
DivPow10Lost(d, rest) == [q |-> d.q, r |-> rest \/ d.r # 0]
DivPow10Again(h, n) == BigDivPow10(h.q, n, h.r)
BigDivPow10(a, n, rest) ==
    IF n = 0 \/ a = <<>> THEN [q |-> a, r |-> rest]
    ELSE IF n <= 4 THEN DivPow10Lost(BigDivMod(a, Pow10(n)), rest)
    ELSE DivPow10Again(BigDivPow10(a, n \div 2, rest), n - n \div 2)

\* ---- rounding to a double (round to nearest, ties to even)
\* a / 2^n for n >= 1, rounded to an integer; rest tells that the exact value
\* is above a by less than one.  Half or more above the floor is the bit
\* below 2^n; exactly half is rounded to the even neighbour.
RoundShift(a, n, rest) ==
    IF /\ BigOdd(BigShr(a, n - 1))
       /\ (rest \/ ~BigLowZero(a, n - 1) \/ BigOdd(BigShr(a, n)))
    THEN BigAdd(BigShr(a, n), <<>>, 1) ELSE BigShr(a, n)
\* The double of s * m * 2^e for m of at most 53 bits and e >= -1074: inf from
\* 2^1024 on
Finite(s, m, e) == IF e + BigBitLen(m) > 1024 THEN Inf(s) ELSE Num(s, m, e)
\* The same for m of at most 54 bits, which m = 2^53 has after rounding up
Normal(s, m, e) ==
    IF m = <<>> THEN Zero(s)
    ELSE IF BigBitLen(m) = 54 THEN Finite(s, BigShr(m, 1), e + 1)
    ELSE Finite(s, m, e)
\* The double nearest to s * a * 2^t, or to a value above a * 2^t by less than
\* 2^t when rest (a then carries at least two bits more than the double
\* keeps); e is the exponent of the double's last bit
Rounded(s, a, t, rest, e) ==
    Normal(s, IF e <= t THEN BigShl(a, t - e) ELSE RoundShift(a, e - t, rest), e)
Double(s, a, t, rest) ==
    IF a = <<>> THEN Zero(s)
    ELSE Rounded(s, a, t, rest, Max2(BigBitLen(a) + t - 53, -1074))
\* float(n) of an int
DoubleOfInt(n) == IF n < 0 THEN Double(-1, BigOfInt(-n), 0, FALSE)
                  ELSE Double(1, BigOfInt(n), 0, FALSE)

\* ---- arithmetic of doubles (no operand is nan)
\* -a;  a + b;  a * k and a / k for an int k >= 1;  a * b;  a < b;
\* min(a, b) and max(a, b)
Neg(a) == [a EXCEPT !.s = -a.s]
IsZero(val) == val.k = "num" /\ val.m = <<>>
\* The mantissa of a for the exponent t <= a.e
Aligned(a, t) == BigShl(a.m, a.e - t)
SumAligned(a, b, t) ==
    IF a.s = b.s THEN Double(a.s, BigAdd(Aligned(a, t), Aligned(b, t), 0), t, FALSE)
    ELSE IF Aligned(a, t) = Aligned(b, t) THEN Zero(1)
    ELSE IF BigLess(Aligned(a, t), Aligned(b, t))
    THEN Double(b.s, BigSub(Aligned(b, t), Aligned(a, t)), t, FALSE)
    ELSE Double(a.s, BigSub(Aligned(a, t), Aligned(b, t)), t, FALSE)
DoubleAdd(a, b) ==
    IF a.k = "inf" THEN (IF b.k = "inf" /\ b.s # a.s THEN NaN ELSE a)
    ELSE IF b.k = "inf" THEN b
    ELSE IF IsZero(a) THEN (IF IsZero(b) /\ a.s # b.s THEN Zero(1) ELSE b)
    ELSE IF IsZero(b) THEN a
    ELSE SumAligned(a, b, Min2(a.e, b.e))
DoubleMulInt(a, k) ==
    IF a.k = "inf" THEN a ELSE Double(a.s, BigMulAdd(a.m, k, 0), a.e, FALSE)
\* The quotient of a * 2^60 by k keeps more bits than the double
QuotientDouble(s, d, t) == Double(s, d.q, t, d.r # 0)
DoubleDivInt(a, k) ==
    IF a.k = "inf" THEN a
    ELSE QuotientDouble(a.s, BigDivMod(BigShl(a.m, 60), k), a.e - 60)
DoubleLess(a, b) ==
    LET Below(x, y) ==
            /\ x.k = "num"
            /\ \/ y.k = "inf"
               \/ x.e < y.e
               \/ x.e = y.e /\ BigLess(x.m, y.m)
    IN  IF IsZero(a) /\ IsZero(b) THEN FALSE
        ELSE IF a.s # b.s THEN a.s < b.s
        ELSE IF a.s = 1 THEN Below(a, b) ELSE Below(b, a)
\* The product of two naturals, one digit of b at a time
RECURSIVE BigMul(_, _)
BigMul(a, b) ==
    IF a = <<>> \/ b = <<>> THEN <<>>
    ELSE BigAdd(BigMulAdd(a, b[1], 0), <<0>> \o BigMul(a, Tail(b)), 0)
DoubleMul(a, b) ==
    IF a.k = "inf" \/ b.k = "inf"
    THEN (IF IsZero(a) \/ IsZero(b) THEN NaN ELSE Inf(a.s * b.s))
    ELSE Double(a.s * b.s, BigMul(a.m, b.m), a.e + b.e, FALSE)
\* min and max return their first argument unless the second is strictly
\* below (above) it
DoubleMin(a, b) == IF DoubleLess(b, a) THEN b ELSE a
DoubleMax(a, b) == IF DoubleLess(a, b) THEN b ELSE a

\* p is a digitpart:  digit (["_"] digit)*
IsDigitPart(p) ==
    /\ p # "" /\ AllChars(p, Digits \cup {"_"})
    /\ IsDigit(At(p, 1)) /\ IsDigit(At(p, Len(p)))
    /\ ~Contains(p, "__")

\* int() of a string of digits and underscores; the number of its digits
RECURSIVE DigitsValue(_)
DigitsValue(s) ==
    IF s = "" THEN 0
    ELSE IF At(s, Len(s)) = "_" THEN DigitsValue(Take(s, Len(s) - 1))
    ELSE 10 * DigitsValue(Take(s, Len(s) - 1)) + (Code(At(s, Len(s))) - 48)
DigitCount(s) == Cardinality({i \in 1..Len(s) : IsDigit(At(s, i))})
\* int() as a natural of any size; int() or 99999 if that is less (an exponent
\* that large decides the float whatever the digits before it)
RECURSIVE BigDigits(_)
BigDigits(s) ==
    IF Len(s) <= 9 THEN BigOfInt(DigitsValue(s))
    ELSE BigAdd(BigMulPow10(BigDigits(Take(s, Len(s) \div 2)),
                            DigitCount(Drop(s, Len(s) \div 2))),
                BigDigits(Drop(s, Len(s) \div 2)), 0)
RECURSIVE ExponentValue(_)
ExponentValue(s) ==
    IF s = "" THEN 0
    ELSE IF At(s, Len(s)) = "_" THEN ExponentValue(Take(s, Len(s) - 1))
    ELSE Min2(99999, 10 * ExponentValue(Take(s, Len(s) - 1)) + (Code(At(s, Len(s))) - 48))
\* The number of digits of s from its first digit that is not 0
SignificantDigits(s) ==
    Cardinality({i \in 1..Len(s) :
                    IsDigit(At(s, i)) /\ \E j \in 1..i : At(s, j) \in Digits \ {"0"}})

\* s without a leading sign, and the sign as +1 / -1
Unsigned(s) == IF Mid(s, 1, 1) \in {"+", "-"} THEN Drop(s, 1) ELSE s
SignOf(s) == IF Mid(s, 1, 1) = "-" THEN -1 ELSE 1

\* The double nearest to sign * ip.fp * 10^x for the integer digits ip and the
\* fraction digits fp.  With d = ip fp read as a natural the value is
\* d * 10^x10 and lies in [10^(magnitude-1), 10^magnitude): from 1e309 on it
\* is inf and below 1e-324 it is zero.  For x10 < 0 the quotient of d * 2^n by
\* 10^(-x10) is taken with n large enough for 64 bits of it.
QuotientValue(sign, d, t) == Double(sign, d.q, t, d.r)
ScaledValue(sign, digits, x10) ==
    IF x10 >= 0 THEN Double(sign, BigMulPow10(BigDigits(digits), x10), 0, FALSE)
    ELSE QuotientValue(sign, BigDivPow10(BigShl(BigDigits(digits), 64 - 4 * x10),
                                         -x10, FALSE), 4 * x10 - 64)
MagnitudeValue(sign, digits, x10, magnitude) ==
    IF SignificantDigits(digits) = 0 THEN Zero(sign)
    ELSE IF magnitude > 309 THEN Inf(sign)
    ELSE IF magnitude < -323 THEN Zero(sign)
    ELSE ScaledValue(sign, digits, x10)
DecimalValue(sign, ip, fp, x) ==
    MagnitudeValue(sign, ip \o fp, x - DigitCount(fp),
                   SignificantDigits(ip \o fp) + x - DigitCount(fp))

\* The float of sign, mantissa text and, if has_exp, exponent text:
\* (digitpart ["." [digitpart]] | "." digitpart) [("e"|"E") [sign] digitpart]
DecimalFloat(sign, mant, has_exp, exp) ==
    With(SplitOn(mant, "."), LAMBDA p :
        IF /\ Len(p) <= 2
           /\ \A i \in 1..Len(p) : p[i] = "" \/ IsDigitPart(p[i])
           /\ \E i \in 1..Len(p) : p[i] # ""
           /\ has_exp => IsDigitPart(Unsigned(exp))
        THEN DecimalValue(sign, p[1], IF Len(p) = 2 THEN p[2] ELSE "",
                          IF has_exp THEN SignOf(exp) * ExponentValue(Unsigned(exp)) ELSE 0)
        ELSE ValueError)

\* float of the text t that follows the optional sign
UnsignedFloat(sign, t) ==
    With(LeadRun(t, 1, Alphabet \ {"e", "E"}), LAMBDA n :
        IF Lower(t) \in {"inf", "infinity"} THEN Inf(sign)
        ELSE IF Lower(t) = "nan" THEN NaN
        ELSE DecimalFloat(sign, Take(t, n), n < Len(t), Drop(t, n + 1)))

\* float(s): [sign] (inf | infinity | nan) or [sign] decimal, surrounded by
\* optional whitespace; anything else raises ValueError.
FloatOfStripped(u) == UnsignedFloat(SignOf(u), Unsigned(u))
float(s) == FloatOfStripped(Strip(s))

\* val > 0
IsPositive(val) == val.k \in {"num", "inf"} /\ val.s = 1 /\ ~IsZero(val)

-----------------------------------------------------------------------------
(**************** extract_payee.py: quality and confidence *****************)

suffixes == {"INC", "LLC", "L.L.C", "CORP", "CORPORATION", "CO", "CO.", "LTD", "COMPANY"}

\* The float literals of score_payee_quality: the rewards for a business
\* suffix, for two or more words and for a reasonable length, the penalties
\* for a digit, for a city/state ending, for number words and for capitals
quality_literals ==
    [suffix |-> float("0.45"), words |-> float("0.2"), length |-> float("0.15"),
     digit |-> float("0.35"), location |-> float("0.5"), amount |-> float("0.5"),
     caps |-> float("0.05")]
\* The float literals of calculate_confidence: the base, the weight of the
\* payee quality, the bonus for a check number and the upper clamp
confidence_literals ==
    [base |-> float("0.2"), weight |-> float("0.6"), check |-> float("0.18"),
     cap |-> float("0.98")]

\* if cond: score += term;  if cond: score -= term
AddIf(cond, score, term) == IF cond THEN DoubleAdd(score, term) ELSE score
SubIf(cond, score, term) == IF cond THEN DoubleAdd(score, Neg(term)) ELSE score

\* The score score_payee_quality has built before it normalizes it, for a
\* payee with at least one word: the float 0.0 and the rewards and penalties
\* added to it one after the other
quality_score(s, up, words, total) ==
    SubIf(up = s /\ HasChar(s, UpperAZ) /\ ~HasChar(s, LowerAZ),
      SubIf(2 * Cardinality({k \in 1..total :
                StripBy(Upper(words[k]), {".", ","}) \in amount_words}) >= total,
        SubIf(HasLocationSuffix(up),
          SubIf(HasChar(s, Digits),
            AddIf(5 <= Len(s) /\ Len(s) <= 40,
              AddIf(total >= 2,
                AddIf(\E suf \in suffixes :
                          EndsWith(up, suf) \/ EndsWith(up, ", " \o suf),
                      Zero(1), quality_literals.suffix),
                quality_literals.words),
              quality_literals.length),
            quality_literals.digit),
          quality_literals.location),
        quality_literals.amount),
      quality_literals.caps)

\* Variant: the sum is returned as it is, without the clamp to [0, 1]
score_payee_quality_unclamped(payee) ==
    IF SplitWs(Strip(payee)) = <<>> THEN Zero(1)
    ELSE quality_score(Strip(payee), Upper(Strip(payee)), SplitWs(Strip(payee)),
                       Len(SplitWs(Strip(payee))))

\* score_payee_quality: amount_like / total >= 0.5 is 2 * amount_like >= total
\* for the word counts of a payee
score_payee_quality(payee) ==
    IF SplitWs(Strip(payee)) = <<>> THEN Zero(1)
    ELSE DoubleMax(Zero(1), DoubleMin(DoubleOfInt(1),
             quality_score(Strip(payee), Upper(Strip(payee)), SplitWs(Strip(payee)),
                           Len(SplitWs(Strip(payee))))))

\* Mutant: the payee sentinel is scored like a found payee
calculate_confidence_scores_sentinel(payee, check, text) ==
    DoubleMax(Zero(1), DoubleMin(
        AddIf(check # "" /\ check # NotFound,
          AddIf(payee # "",
                confidence_literals.base,
                DoubleMul(confidence_literals.weight, score_payee_quality(payee))),
          confidence_literals.check),
        confidence_literals.cap))

\* Variant: the payee quality is weighted 0.8
calculate_confidence_heavy_quality(payee, check, text) ==
    DoubleMax(Zero(1), DoubleMin(
        AddIf(check # "" /\ check # NotFound,
          AddIf(payee # "" /\ payee # NotFound,
                confidence_literals.base,
                DoubleMul(float("0.8"), score_payee_quality(payee))),
          confidence_literals.check),
        confidence_literals.cap))

\* Variant: a found check number adds 0.20
calculate_confidence_round_bonus(payee, check, text) ==
    DoubleMax(Zero(1), DoubleMin(
        AddIf(check # "" /\ check # NotFound,
          AddIf(payee # "" /\ payee # NotFound,
                confidence_literals.base,
                DoubleMul(confidence_literals.weight, score_payee_quality(payee))),
          float("0.20")),
        confidence_literals.cap))

\* calculate_confidence: 0.2, plus 0.6 * quality for a found payee, plus 0.18
\* for a found check number, each sum and the product rounded to a double
calculate_confidence(payee, check, text) ==
    DoubleMax(Zero(1), DoubleMin(
        AddIf(check # "" /\ check # NotFound,
          AddIf(payee # "" /\ payee # NotFound,
                confidence_literals.base,
                DoubleMul(confidence_literals.weight, score_payee_quality(payee))),
          confidence_literals.check),
        confidence_literals.cap))

-----------------------------------------------------------------------------
(************************ list helpers (Python list) ***********************)

\* sorted(seq) for a strict order Less, stable: equal elements keep their order
\* (list.sort with a key, also with reverse=True).
SortStable(seq, Less(_, _)) ==
    With(seq \o <<>>, LAMBDA s :     \* the list, its elements evaluated once
        LET n == Len(s)
            before(j, i) == Less(s[j], s[i]) \/ (~Less(s[i], s[j]) /\ j < i)
            rank(i) == 1 + Cardinality({j \in 1..n : before(j, i)})
        IN  [k \in 1..n |-> s[CHOOSE i \in 1..n : rank(i) = k]])

\* [x for x in seq if Keep(x)]
RECURSIVE FilterIdx(_, _, _)
FilterIdx(seq, keep, i) ==
    IF i > Len(seq) THEN <<>>
    ELSE (IF i \in keep THEN <<seq[i]>> ELSE <<>>) \o FilterIdx(seq, keep, i + 1)
Filter(seq, Keep(_)) == FilterIdx(seq, {i \in 1..Len(seq) : Keep(seq[i])}, 1)

\* seq[-n:]
LastN(seq, n) == IF Len(seq) <= n THEN seq ELSE SubSeq(seq, Len(seq) - n + 1, Len(seq))
\* seq[:n]
FirstN(seq, n) == IF Len(seq) <= n THEN seq ELSE SubSeq(seq, 1, n)

\* [line.strip() for line in full_text.split('\n') if line.strip()]
TextLines(text) ==
    LET raw == SplitOn(text, "\n")
        stripped == [k \in 1..Len(raw) |-> Strip(raw[k])]
    IN  Filter(stripped, LAMBDA l : l # "")

-----------------------------------------------------------------------------
(******************** extract_payee.py: OCR token geometry *****************)

\* A token of textAnnotations is [description, vertices]; a vertex is [x, y]
\* (a coordinate the provider leaves out reads as 0: v.get("x", 0)).
SeqMin(f) == MinOf({f[k] : k \in 1..Len(f)})
SeqMax(f) == CHOOSE x \in {f[k] : k \in 1..Len(f)} : \A k \in 1..Len(f) : f[k] <= x

min_x(t) == SeqMin([k \in 1..Len(t.vertices) |-> t.vertices[k].x])
max_x(t) == SeqMax([k \in 1..Len(t.vertices) |-> t.vertices[k].x])
min_y(t) == SeqMin([k \in 1..Len(t.vertices) |-> t.vertices[k].y])
max_y(t) == SeqMax([k \in 1..Len(t.vertices) |-> t.vertices[k].y])
\* height = max_y - min_y; twice center_y = min_y + max_y
height(t) == max_y(t) - min_y(t)
center_y2(t) == min_y(t) + max_y(t)
Abs(n) == IF n < 0 THEN -n ELSE n

-----------------------------------------------------------------------------
(******************** extract_payee.py: extract_payee_name *****************)

\* \w of re
WordChars == Letters \cup Digits \cup {"_"}

\* "OF" (any case) stands at position k of line with \b on both sides
OfWordAt(line, k) ==
    /\ Upper(Mid(line, k, 2)) = "OF"
    /\ (k = 1 \/ At(line, k - 1) \notin WordChars)
    /\ (k + 2 > Len(line) \/ At(line, k + 2) \notin WordChars)

\* re.search(r'\bOF\b', line, re.IGNORECASE)
HasOfWord(line) == \E k \in 1..Len(line) : OfWordAt(line, k)

\* re.split(r'\b(?:RD\s+)?OF\b', line, flags=re.IGNORECASE)[-1]: every match ends
\* with a whole-word OF and every whole-word OF ends a match, so the last part is
\* what follows the last whole-word OF.
AfterLastOf(line) ==
    LET ks == {k \in 1..Len(line) : OfWordAt(line, k)}
        last == CHOOSE k \in ks : \A j \in ks : j <= k
    IN  Drop(line, last + 1)

\* re.search(r'^(?:RD\s+)?OF\s*$', line, re.IGNORECASE)
IsOfMarker(line) ==
    LET rdWs == LeadRun(line, 3, Spaces)
        j == IF Upper(Mid(line, 1, 2)) = "RD" /\ rdWs >= 1 THEN 3 + rdWs ELSE 1
    IN  /\ Upper(Mid(line, j, 2)) = "OF"
        /\ j + 2 + LeadRun(line, j + 2, Spaces) = Len(line) + 1

company_keywords ==
    {"Love United Transport", "BUSHBERRY", "PAY", "TO THE", "CHASE", "JPMorgan"}
amount_keywords ==
    {"THOUSAND", "HUNDRED", "DOLLARS", "$", "FOR", "DATE", "PAY TO THE ORDER OF",
     "MEMO", "AMOUNT"}
location_noise_keywords == {"FONTANA", "CA", "USA", "CITY", "STATE", "ZIP"}

\* any(keyword.lower() in line.lower() for keyword in kws)
HasKeyword(line, kws) == \E kw \in kws : Contains(Lower(line), Lower(kw))

\* Strategy 1: the first line with a whole-word OF whose remainder cleans to a
\* valid payee
Strategy1Cand(line) == clean_payee_name(Strip(AfterLastOf(line)))
Strategy1Hits(lines) ==
    {i \in 1..Len(lines) : HasOfWord(lines[i]) /\ is_valid_payee(Strategy1Cand(lines[i]))}

\* Strategy 2: the line before a standalone OF marker
Strategy2Cand(lines, i) == clean_payee_name(Strip(lines[i - 1]))
Strategy2Hits(lines) ==
    {i \in 2..Len(lines) : IsOfMarker(lines[i]) /\ is_valid_payee(Strategy2Cand(lines, i))}

\* re.match(r'^\d+$', line)
IsAllDigits(line) ==
    LET d == LeadRun(line, 1, Digits) IN d >= 1 /\ AtEnd(line, d + 1)

\* Strategy 3: between the last company-header line and the first amount line
company_end_idx(lines) ==
    LET hits == {i \in 1..Len(lines) : HasKeyword(lines[i], company_keywords)}
    IN  IF hits = {} THEN 0 ELSE CHOOSE i \in hits : \A j \in hits : j <= i
amount_start_idx(lines) ==
    LET hits == {i \in 1..Len(lines) : HasKeyword(lines[i], amount_keywords)}
    IN  IF hits = {} THEN Len(lines) + 1 ELSE MinOf(hits)
Strategy3Skips(line) ==
    \/ IsOfMarker(line)
    \/ IsAllDigits(line)
    \/ IsDateShaped(line)
    \/ HasLocationSuffix(Strip(line))
    \/ HasKeyword(line, location_noise_keywords)
\* Variant: the mid-document strategy takes the first line it does not skip,
\* without validating it
Strategy3Hits_unvalidated(lines) ==
    {i \in (company_end_idx(lines) + 1)..(amount_start_idx(lines) - 1) :
        ~Strategy3Skips(lines[i])}
Strategy3Hits(lines) ==
    {i \in (company_end_idx(lines) + 1)..(amount_start_idx(lines) - 1) :
        ~Strategy3Skips(lines[i]) /\ is_valid_payee(clean_payee_name(lines[i]))}

\* extract_payee_spatial
exclude_words == {"PAY", "TO", "THE", "ORDER", "OF", "RD", "FOR", "DOLLARS", "DATE"}

\* re.match(r'^\d+[.,]?\d*$', desc)
LooksNumeric(desc) ==
    LET d1 == LeadRun(desc, 1, Digits)
        sep == IF d1 + 1 <= Len(desc) /\ At(desc, d1 + 1) \in {".", ","} THEN 1 ELSE 0
        d2 == LeadRun(desc, d1 + sep + 1, Digits)
    IN  d1 >= 1 /\ (AtEnd(desc, d1 + 1) \/ AtEnd(desc, d1 + sep + d2 + 1))

\* The tokens the spatial strategies look at: texts[1:] with at least 4 vertices
word_boxes(tokens) == Filter(Tail(tokens), LAMBDA t : Len(t.vertices) >= 4)

\* abs(wb.center_y - of.center_y) < of.height * 0.8, in tenths
payee_words(tokens) ==
    LET wbs == word_boxes(tokens)
        of_boxes == Filter(wbs, LAMBDA t : Upper(t.description) = "OF")
        of_box == of_boxes[1]
    IN  IF of_boxes = <<>> THEN <<>>
        ELSE Filter(wbs, LAMBDA wb :
                /\ 5 * Abs(center_y2(wb) - center_y2(of_box)) < 8 * height(of_box)
                /\ max_x(wb) < min_x(of_box)
                /\ Upper(wb.description) \notin exclude_words
                /\ ~LooksNumeric(wb.description)
                /\ ~StartsWith(wb.description, "$")
                /\ Len(wb.description) > 1)

\* Variant: the four leftmost words are kept instead of the four rightmost
SpatialCand_first4(tokens) ==
    LET sorted == SortStable(payee_words(tokens), LAMBDA u, v : min_x(u) < min_x(v))
        first4 == SubSeq(sorted, 1, Min2(4, Len(sorted)))
        parts == [k \in 1..Len(first4) |-> first4[k].description]
    IN  IF first4 = <<>> THEN "" ELSE clean_payee_name(Strip(Join(parts, " ")))

\* The candidate of the spatial strategy, before validation ("" when there is none)
SpatialCand(tokens) ==
    LET sorted == SortStable(payee_words(tokens), LAMBDA u, v : min_x(u) < min_x(v))
        last4 == LastN(sorted, 4)
        parts == [k \in 1..Len(last4) |-> last4[k].description]
    IN  IF last4 = <<>> THEN "" ELSE clean_payee_name(Strip(Join(parts, " ")))

\* None when the spatial strategy finds nothing
extract_payee_spatial(tokens) ==
    LET payee == SpatialCand(tokens)
    IN  IF payee_words(tokens) # <<>> /\ is_valid_payee(payee) THEN payee ELSE None

\* Variant: the line before a standalone OF is tried before the same-line rule
PayeeResult_before_first(text, tokens) ==
    LET lines == TextLines(text)
        h1 == Strategy1Hits(lines)
        h2 == Strategy2Hits(lines)
        h3 == Strategy3Hits(lines)
    IN  IF h2 # {} THEN [payee |-> Strategy2Cand(lines, MinOf(h2)), strategy |-> 2]
        ELSE IF h1 # {} THEN [payee |-> Strategy1Cand(lines[MinOf(h1)]), strategy |-> 1]
        ELSE IF h3 # {} THEN [payee |-> clean_payee_name(lines[MinOf(h3)]), strategy |-> 3]
        ELSE IF Len(tokens) > 1 /\ extract_payee_spatial(tokens) # None
             THEN [payee |-> extract_payee_spatial(tokens), strategy |-> 4]
        ELSE [payee |-> NotFound, strategy |-> 0]

\* The payee and the strategy (1..4, 0 for none) that produced it
PayeeResult(text, tokens) ==
    LET lines == TextLines(text)
        h1 == Strategy1Hits(lines)
        h2 == Strategy2Hits(lines)
        h3 == Strategy3Hits(lines)
    IN  IF h1 # {} THEN [payee |-> Strategy1Cand(lines[MinOf(h1)]), strategy |-> 1]
        ELSE IF h2 # {} THEN [payee |-> Strategy2Cand(lines, MinOf(h2)), strategy |-> 2]
        ELSE IF h3 # {} THEN [payee |-> clean_payee_name(lines[MinOf(h3)]), strategy |-> 3]
        ELSE IF Len(tokens) > 1 /\ extract_payee_spatial(tokens) # None
             THEN [payee |-> extract_payee_spatial(tokens), strategy |-> 4]
        ELSE [payee |-> NotFound, strategy |-> 0]

extract_payee_name(text, tokens) == PayeeResult(text, tokens).payee

-----------------------------------------------------------------------------
(******************* extract_payee.py: extract_check_number ****************)

\* The MICR on-us symbol (U+2448) of the pattern of strategy 4; a TLA+ string
\* holds ASCII only, so "^" stands for it in the model's texts.
OnUs == "^"

\* re.match(r'^\d{4,5}$', s)
IsCheckDigits(s) ==
    LET d == LeadRun(s, 1, Digits) IN d \in {4, 5} /\ AtEnd(s, d + 1)

\* Variant: every line is scanned for a standalone number
CheckStrategy1Hits_all_lines(lines) ==
    {i \in 1..Len(lines) : IsCheckDigits(lines[i])}

\* Strategy 1: a standalone number among the first 10 lines
CheckStrategy1Hits(lines) ==
    {i \in 1..Len(FirstN(lines, 10)) : IsCheckDigits(lines[i])}

\* Strategy 2: the candidates, in token order, then sorted by (min_y, -max_x)
check_candidates(tokens) ==
    Filter(Tail(tokens), LAMBDA t : IsCheckDigits(t.description) /\ Len(t.vertices) >= 4)
\* Mutant: the tie on min_y broken by the smallest max_x (the sign of line 297 lost)
sorted_candidates_leftmost(tokens) ==
    SortStable(check_candidates(tokens),
               LAMBDA u, v : \/ min_y(u) < min_y(v)
                             \/ (min_y(u) = min_y(v) /\ max_x(u) < max_x(v)))

sorted_candidates(tokens) ==
    SortStable(check_candidates(tokens),
               LAMBDA u, v : \/ min_y(u) < min_y(v)
                             \/ (min_y(u) = min_y(v) /\ -max_x(u) < -max_x(v)))

\* Strategy 3: re.search(r'(\d{4,5})\s*DATE', line, re.IGNORECASE) at position i
\* with n digits
DateMatchAt(line, i, n) ==
    LET w == LeadRun(line, i + n, Spaces)
    IN  /\ i + n - 1 <= Len(line)
        /\ AllChars(SubSeq(line, i, i + n - 1), Digits)
        /\ Upper(Mid(line, i + n + w, 4)) = "DATE"
DateMatches(line) ==
    {i \in 1..Len(line) : DateMatchAt(line, i, 5) \/ DateMatchAt(line, i, 4)}
\* group(1) of the leftmost match, the 5-digit reading first
DateGroup(line) ==
    LET i == MinOf(DateMatches(line))
    IN  IF DateMatchAt(line, i, 5) THEN SubSeq(line, i, i + 4) ELSE SubSeq(line, i, i + 3)
CheckStrategy3Hits(lines) ==
    {i \in 1..Len(lines) : Contains(Upper(lines[i]), "DATE") /\ DateMatches(lines[i]) # {}}

\* Strategy 4: re.search(r'<OnUs>0*(\d{4,5})<OnUs>', micr_line) at position i: the
\* digits between two on-us symbols, fewest leading zeros left in the group
\* Variant: the leading zeros of the MICR field stay in the group
MicrGroupAt_keeps_zeros(line, i) ==
    LET d == LeadRun(line, i + 1, Digits)
        zeros == LeadRun(line, i + 1, {"0"})
        zs == {z \in 0..zeros : d - z \in {4, 5}}
    IN  IF At(line, i) = OnUs /\ i + d + 1 <= Len(line) /\ At(line, i + d + 1) = OnUs
           /\ zs # {}
        THEN SubSeq(line, i + 1, i + d)
        ELSE ""
MicrGroupAt(line, i) ==
    LET d == LeadRun(line, i + 1, Digits)
        zeros == LeadRun(line, i + 1, {"0"})
        zs == {z \in 0..zeros : d - z \in {4, 5}}
        z == CHOOSE x \in zs : \A y \in zs : y <= x
    IN  IF At(line, i) = OnUs /\ i + d + 1 <= Len(line) /\ At(line, i + d + 1) = OnUs
           /\ zs # {}
        THEN SubSeq(line, i + 1 + z, i + d)
        ELSE ""
MicrMatches(line) == {i \in 1..Len(line) : MicrGroupAt(line, i) # ""}

\* The check number and the strategy (1..4, 0 for none) that produced it
CheckNumberResult(text, tokens) ==
    LET lines == TextLines(text)
        h1 == CheckStrategy1Hits(lines)
        h3 == CheckStrategy3Hits(lines)
        micr_line == lines[Len(lines)]
    IN  IF h1 # {} THEN [number |-> lines[MinOf(h1)], strategy |-> 1]
        ELSE IF Len(tokens) > 1 /\ check_candidates(tokens) # <<>>
             THEN [number |-> sorted_candidates(tokens)[1].description, strategy |-> 2]
        ELSE IF h3 # {} THEN [number |-> DateGroup(lines[MinOf(h3)]), strategy |-> 3]
        ELSE IF lines # <<>> /\ MicrMatches(micr_line) # {}
             THEN [number |-> MicrGroupAt(micr_line, MinOf(MicrMatches(micr_line))),
                   strategy |-> 4]
        ELSE [number |-> NotFound, strategy |-> 0]

extract_check_number(text, tokens) == CheckNumberResult(text, tokens).number

-----------------------------------------------------------------------------
(********************** statement_parser.py: strptime **********************)

\* A datetime at midnight is its (year, month, day); NoDate stands for None.
Date(y, mo, d) == [year |-> y, month |-> mo, day |-> d]
NoDate == Date(0, 0, 0)

month_abbr == <<"jan", "feb", "mar", "apr", "may", "jun",
                "jul", "aug", "sep", "oct", "nov", "dec">>

IsLeap(y) == (y % 4 = 0 /\ y % 100 # 0) \/ y % 400 = 0
DaysInMonth(y, mo) ==
    IF mo = 2 THEN (IF IsLeap(y) THEN 29 ELSE 28)
    ELSE IF mo \in {4, 6, 9, 11} THEN 30 ELSE 31

\* The value a strptime directive reads from a field that it matches in full,
\* -1 when the field does not match:
\*   %m  1[0-2]|0[1-9]|[1-9]        %d  3[0-1]|[1-2]\d|0[1-9]|[1-9]| [1-9]
\*   %Y  \d\d\d\d                   %y  \d\d  (00-68 -> 20xx, 69-99 -> 19xx)
\*   %b  jan|feb|...|dec, ignoring case
Directive(code, field) ==
    LET n == DigitsValue(field)
        digits == field # "" /\ AllChars(field, Digits)
    IN  CASE code = "m" ->
               IF digits /\ Len(field) <= 2 /\ n >= 1 /\ n <= 12 THEN n ELSE -1
          [] code = "d" ->
               IF digits /\ Len(field) <= 2 /\ n >= 1 /\ n <= 31 THEN n
               ELSE IF Len(field) = 2 /\ At(field, 1) = " "
                       /\ At(field, 2) \in Digits \ {"0"}
                    THEN Code(At(field, 2)) - 48
               ELSE -1
          [] code = "Y" -> IF digits /\ Len(field) = 4 THEN n ELSE -1
          [] code = "y" ->
               IF digits /\ Len(field) = 2
               THEN (IF n <= 68 THEN 2000 + n ELSE 1900 + n) ELSE -1
          [] code = "b" ->
               IF \E i \in 1..12 : month_abbr[i] = Lower(field)
               THEN CHOOSE i \in 1..12 : month_abbr[i] = Lower(field) ELSE -1

\* datetime(y, mo, d) for the fields read, None when one did not match or the
\* constructor raises (year 0, day past the end of the month)
MakeDate(y, mo, d) ==
    IF y >= 1 /\ mo >= 1 /\ d >= 1 /\ d <= DaysInMonth(y, mo) THEN Date(y, mo, d)
    ELSE NoDate

-----------------------------------------------------------------------------
(******************** statement_parser.py: StatementParser *****************)

DATE_FORMATS == <<"%m/%d/%Y", "%Y-%m-%d", "%m-%d-%Y", "%d/%m/%Y", "%Y/%m/%d",
                  "%b %d, %Y", "%d %b %Y", "%m/%d/%y", "%d/%m/%y">>

\* datetime.strptime(value, fmt) for the formats above, NoDate when it raises.
\* The whole value must match.  A numeric format is three fields around its
\* separator; in the two formats with a month name the blanks of the format
\* match any run of whitespace, and only %d may start with one space.
NamedMonthDate(fmt, value, f, lead) ==
    IF Len(f) # 3 \/ IsSpace(At(value, Len(value))) THEN NoDate
    ELSE IF fmt = "%b %d, %Y"
    THEN IF lead = 0 /\ EndsWith(f[2], ",")
         THEN MakeDate(Directive("Y", f[3]), Directive("b", f[1]),
                       Directive("d", Take(f[2], Len(f[2]) - 1)))
         ELSE NoDate
    ELSE IF lead = 0 \/ (lead = 1 /\ At(value, 1) = " ")
         THEN MakeDate(Directive("Y", f[3]), Directive("b", f[2]),
                       Directive("d", IF lead = 1 THEN " " \o f[1] ELSE f[1]))
         ELSE NoDate
NumericDate(fmt, g) ==
    IF Len(g) # 3 THEN NoDate
    ELSE MakeDate(Directive(At(fmt, IF At(fmt, 2) = "Y" THEN 2 ELSE 8),
                            g[IF At(fmt, 2) = "Y" THEN 1 ELSE 3]),
                  Directive("m", g[CHOOSE i \in 1..3 : At(fmt, 3 * i - 1) = "m"]),
                  Directive("d", g[CHOOSE i \in 1..3 : At(fmt, 3 * i - 1) = "d"]))
strptime(value, fmt) ==
    IF At(fmt, 2) = "b" \/ At(fmt, 5) = "b"
    THEN NamedMonthDate(fmt, value, SplitWs(value), LeadRun(value, 1, Spaces))
    ELSE NumericDate(fmt, SplitOn(value, At(fmt, 3)))

\* for fmt in DATE_FORMATS[i..]: try strptime ... break / return on the first
\* success
RECURSIVE FirstDate(_, _)
FirstDate(value, i) ==
    IF i > Len(DATE_FORMATS) THEN NoDate
    ELSE With(strptime(value, DATE_FORMATS[i]), LAMBDA parsed :
             IF parsed # NoDate THEN parsed ELSE FirstDate(value, i + 1))
ParseDate(value) == FirstDate(value, 1)

placeholders == {"nan", "none", "", "true", "false"}

looks_like_check_number(value) ==
    /\ Len(value) >= 2
    /\ HasChar(value, Letters \cup Digits)
    /\ Lower(value) \notin {"nan", "none", "true", "false"}

looks_like_date(value) == Len(value) >= 6 /\ ParseDate(value) # NoDate

\* A section is a DataFrame: its column labels and its data rows of cells.
DataFrame(data, columns) == [columns |-> columns, rows |-> data]

max_sample_rows == 3

prepare_column_analysis(section) ==
    [c \in 1..Len(section.columns) |->
        [index |-> c - 1,
         name |-> section.columns[c],
         samples |-> [r \in 1..Min2(max_sample_rows, Len(section.rows)) |->
                         section.rows[r][c]]]]

\* A value of the mapping, as json.loads types it: t is its JSON type and v its
\* number (0 / 1 for false / true); "missing" is a key the object does not have.
JInt(i) == [t |-> "int", v |-> i]
JNull == [t |-> "null", v |-> 0]
JBool(b) == [t |-> "bool", v |-> IF b THEN 1 ELSE 0]
JFloat(i) == [t |-> "float", v |-> i]
JStr(i) == [t |-> "str", v |-> i]
JMissing == [t |-> "missing", v |-> 0]
Mapping(c, d, a) == [check_number |-> c, date |-> d, amount |-> a]
\* mapping.get(role) is None
IsNone(value) == value.t \in {"null", "missing"}

\* s.replace(',', '').replace('$', '')
RECURSIVE RemoveChars(_, _)
RemoveChars(s, S) ==
    IF s = "" THEN ""
    ELSE (IF At(s, 1) \in S THEN "" ELSE At(s, 1)) \o RemoveChars(Drop(s, 1), S)

\* The floats the amount loop of _fallback_mapping reads from the samples
SampleValue(clean) ==
    IF Lower(clean) \in {"nan", "", "none"} THEN <<>>
    ELSE With(float(clean), LAMBDA val : IF val = ValueError THEN <<>> ELSE <<val>>)
RECURSIVE sample_values(_)
sample_values(samples) ==
    IF samples = <<>> THEN <<>>
    ELSE SampleValue(Strip(RemoveChars(samples[1], {",", "$"})))
           \o sample_values(Tail(samples))

\* total after the loop over the samples: total = 0.0, then total += val for
\* each val > 0 in the order of the samples
RECURSIVE total(_, _)
total(vals, sum) ==
    IF vals = <<>> THEN sum
    ELSE total(Tail(vals), IF IsPositive(vals[1]) THEN DoubleAdd(sum, vals[1]) ELSE sum)

check_score(col) ==
    LET col_name == Lower(col.name)
    IN
    (IF \E kw \in {"check", "chk", "slip", "trans", "reference", "ref"} :
           Contains(col_name, kw) THEN 50 ELSE 0)
    + (IF \E i \in DOMAIN col.samples : looks_like_check_number(col.samples[i])
       THEN 30 ELSE 0)

date_score(col) ==
    LET col_name == Lower(col.name)
    IN
    (IF \E kw \in {"date", "post", "trans"} : Contains(col_name, kw) THEN 50 ELSE 0)
    + (IF \E i \in DOMAIN col.samples : looks_like_date(col.samples[i]) THEN 40 ELSE 0)

\* amount_score after lines 129 and 153-162 for a column whose name earned
\* keyword points (30 or 0), as a double: every += and -= rounds its result
AmountPoints(keyword, vals, valid_count, positive_count, zero_count) ==
    IF valid_count = 0 THEN DoubleOfInt(keyword)
    ELSE With(DoubleAdd(DoubleAdd(DoubleOfInt(keyword + valid_count * 10),
                                  DoubleMulInt(DoubleDivInt(DoubleOfInt(positive_count),
                                                            valid_count), 40)),
                        Neg(DoubleMulInt(DoubleDivInt(DoubleOfInt(zero_count),
                                                      valid_count), 20))), LAMBDA score :
         IF positive_count = 0 THEN score
         ELSE With(DoubleDivInt(total(vals, Zero(1)), positive_count), LAMBDA avg :
              With(IF DoubleLess(DoubleOfInt(1), avg)
                   THEN DoubleAdd(score, DoubleOfInt(15)) ELSE score, LAMBDA above1 :
                  IF DoubleLess(DoubleOfInt(50), avg)
                  THEN DoubleAdd(above1, DoubleOfInt(10)) ELSE above1)))
amount_score(col) ==
    With(sample_values(col.samples), LAMBDA vals :
        AmountPoints(IF \E kw \in {"amount", "debit", "payment", "withdrawal"} :
                            Contains(Lower(col.name), kw) THEN 30 ELSE 0,
                     vals, Len(vals),
                     Cardinality({i \in DOMAIN vals : IsPositive(vals[i])}),
                     Cardinality({i \in DOMAIN vals : IsZero(vals[i])})))

\* x > y for two int scores
IntGreater(x, y) == x > y
\* x > y for two amount scores
DoubleGreater(x, y) == DoubleLess(y, x)

\* scores.sort(key=lambda x: x[1], reverse=True); the role is scores[0][0] when
\* scores[0][1] > threshold.  Greater is > on the scores and Mapped is the
\* test of the best score against the threshold.
Winner(column_info, score(_), Greater(_, _), Mapped(_)) ==
    With(SortStable([c \in 1..Len(column_info) |->
                        <<column_info[c].index, score(column_info[c])>>],
                    LAMBDA a, b : Greater(a[2], b[2]))[1], LAMBDA top :
        IF Mapped(top[2]) THEN JInt(top[1]) ELSE JNull)

\* Variant: a role is mapped when the best score reaches its threshold
fallback_mapping_at_threshold(column_info) ==
    Mapping(Winner(column_info, check_score, IntGreater, LAMBDA x : x >= 30),
            Winner(column_info, date_score, IntGreater, LAMBDA x : x >= 40),
            Winner(column_info, amount_score, DoubleGreater,
                   LAMBDA x : ~DoubleLess(x, DoubleOfInt(20))))
\* Variant: among equal scores the column with the highest index comes first
fallback_mapping_last_wins(column_info) ==
    LET Last(score(_), Greater(_, _), Mapped(_)) ==
            With(SortStable([c \in 1..Len(column_info) |->
                                <<column_info[c].index, score(column_info[c])>>],
                            LAMBDA a, b : Greater(a[2], b[2])
                                          \/ (~Greater(b[2], a[2]) /\ a[1] > b[1]))[1],
                 LAMBDA top : IF Mapped(top[2]) THEN JInt(top[1]) ELSE JNull)
    IN  Mapping(Last(check_score, IntGreater, LAMBDA x : x > 30),
                Last(date_score, IntGreater, LAMBDA x : x > 40),
                Last(amount_score, DoubleGreater,
                     LAMBDA x : DoubleGreater(x, DoubleOfInt(20))))

fallback_mapping(column_info) ==
    Mapping(Winner(column_info, check_score, IntGreater, LAMBDA x : x > 30),
            Winner(column_info, date_score, IntGreater, LAMBDA x : x > 40),
            Winner(column_info, amount_score, DoubleGreater,
                   LAMBDA x : DoubleGreater(x, DoubleOfInt(20))))

\* What the remote call produced: kind "raise" (generate_content raised),
\* "not_json" (json.loads raised), "not_object" (a JSON value without .items())
\* or "object", whose role values are in mapping.
Response(kind, mapping) == [kind |-> kind, mapping |-> mapping]

map_columns_with_llm(column_info, resp) ==
    LET max_idx == Len(column_info) - 1
        checked(value) ==
            IF ~IsNone(value) /\ (value.t \notin {"int", "bool"}
                                  \/ value.v < 0 \/ value.v > max_idx)
            THEN JNull ELSE value
    IN  IF column_info = <<>> THEN Mapping(JNull, JNull, JNull)
        ELSE IF resp.kind = "object"
        THEN [role \in DOMAIN resp.mapping |-> checked(resp.mapping[role])]
        ELSE fallback_mapping(column_info)

CheckTransaction(number, date, amount) ==
    [check_number |-> number, date |-> date, amount |-> amount,
     payee |-> None, confidence |-> None, flagged_for_review |-> FALSE]

\* Variant: only an empty identifier is skipped
section_checks_keeps_placeholders(section, mapping) ==
    LET col == mapping.check_number.v + 1
        keep == {r \in 1..Len(section.rows) : Strip(section.rows[r][col]) # ""}
    IN  IF mapping.check_number.t # "int" THEN <<>>
        ELSE [k \in 1..Cardinality(keep) |->
                LET r == CHOOSE x \in keep : Cardinality({y \in keep : y < x}) = k - 1
                IN  CheckTransaction(Strip(section.rows[r][col]), NoDate, NoAmount)]

\* The loop of parse_csv_section over the rows, for the mapping in use.
\* df.iloc[row, idx] raises for an idx that is True or False, and the row is
\* skipped by the except clause.
row_date(mapping, date_str) ==
    IF IsNone(mapping.date) \/ Lower(date_str) \in {"nan", "none", ""}
    THEN NoDate ELSE ParseDate(date_str)
row_amount(mapping, amount_str) ==
    IF IsNone(mapping.amount) \/ Lower(amount_str) \in {"nan", "none", ""}
    THEN NoAmount
    ELSE With(float(amount_str), LAMBDA amount :
             IF amount = ValueError THEN NoAmount ELSE amount)
row_check(mapping, row, number) ==
    IF Lower(number) \in placeholders THEN <<>>
    ELSE <<CheckTransaction(number,
                            row_date(mapping, Strip(row[mapping.date.v + 1])),
                            row_amount(mapping, Strip(RemoveChars(
                                row[mapping.amount.v + 1], {",", "$"}))))>>
RECURSIVE section_rows(_, _, _)
section_rows(section, mapping, r) ==
    IF r > Len(section.rows) THEN <<>>
    ELSE row_check(mapping, section.rows[r],
                   Strip(section.rows[r][mapping.check_number.v + 1]))
           \o section_rows(section, mapping, r + 1)
\* Variant: without an identifier column the first column is read as identifier
section_checks_defaults_first(section, mapping) ==
    IF \E role \in DOMAIN mapping : mapping[role].t \in {"bool", "float", "str"}
    THEN <<>>
    ELSE section_rows(section,
                      IF IsNone(mapping.check_number)
                      THEN [mapping EXCEPT !.check_number = JInt(0)] ELSE mapping, 1)
section_checks(section, mapping) ==
    IF \/ IsNone(mapping.check_number)
       \/ \E role \in DOMAIN mapping : mapping[role].t \in {"bool", "float", "str"}
    THEN <<>>
    ELSE section_rows(section, mapping, 1)

parse_csv_section(section, resp) ==
    section_checks(section, map_columns_with_llm(prepare_column_analysis(section), resp))

\* row.isna().all() or all(str(v).strip() == '' for v in row)
IsBlankRow(row) == \A c \in 1..Len(row) : Strip(row[c]) = ""

\* Variant: a run of a single row is a section too
Flush_keeps_single(current_section) ==
    IF Len(current_section) > 0
    THEN <<DataFrame(Tail(current_section), current_section[1])>> ELSE <<>>
\* The section scan of parse_statement: the sections of rows[i..], given the
\* rows collected since the last blank row
Flush(current_section) ==
    IF Len(current_section) > 1
    THEN <<DataFrame(Tail(current_section), current_section[1])>> ELSE <<>>
RECURSIVE ScanRows(_, _, _)
ScanRows(rows, i, current_section) ==
    IF i > Len(rows) THEN Flush(current_section)
    ELSE IF IsBlankRow(rows[i])
    THEN Flush(current_section) \o ScanRows(rows, i + 1, <<>>)
    ELSE ScanRows(rows, i + 1, Append(current_section, rows[i]))

\* Variant: every record is kept
Dedup_keeps_all(kept, seen, checks) ==
    [all_checks |-> kept \o checks,
     seen_check_numbers |-> seen \cup {checks[i].check_number : i \in 1..Len(checks)}]
\* Variant: a record whose check_number was seen replaces the one kept
RECURSIVE Dedup_last_wins(_, _, _)
Dedup_last_wins(kept, seen, checks) ==
    IF checks = <<>> THEN [all_checks |-> kept, seen_check_numbers |-> seen]
    ELSE IF checks[1].check_number \in seen
    THEN Dedup_last_wins([k \in 1..Len(kept) |->
                             IF kept[k].check_number = checks[1].check_number
                             THEN checks[1] ELSE kept[k]], seen, Tail(checks))
    ELSE Dedup_last_wins(Append(kept, checks[1]), seen \cup {checks[1].check_number},
                         Tail(checks))

\* for check in section_checks: keep it unless its check_number was seen
RECURSIVE Dedup(_, _, _)
Dedup(kept, seen, checks) ==
    IF checks = <<>> THEN [all_checks |-> kept, seen_check_numbers |-> seen]
    ELSE IF checks[1].check_number \in seen THEN Dedup(kept, seen, Tail(checks))
    ELSE Dedup(Append(kept, checks[1]), seen \cup {checks[1].check_number}, Tail(checks))

\* Variant: the identifiers are ordered as numbers (shorter first)
sort_checks_numeric(checks) ==
    SortStable(checks, LAMBDA a, b :
        \/ Len(a.check_number) < Len(b.check_number)
        \/ /\ Len(a.check_number) = Len(b.check_number)
           /\ StrLess(a.check_number, b.check_number))

\* all_checks.sort(key=lambda x: x.check_number)
sort_checks(checks) ==
    SortStable(checks, LAMBDA a, b : StrLess(a.check_number, b.check_number))

\* str(n) for n >= 0, and n formatted to at least two digits
RECURSIVE Str(_)
Str(n) == IF n < 10 THEN Chr(48 + n) ELSE Str(n \div 10) \o Chr(48 + (n % 10))
Pad2(n) == IF n < 10 THEN "0" \o Str(n) ELSE Str(n)

\* The rows of the exported DataFrame, None when nothing is exported; an
\* amount of None is written as the empty cell, which NoAmount stands for
export_rows(checks) ==
    IF checks = <<>> THEN None
    ELSE [i \in 1..Len(checks) |->
            [number |-> checks[i].check_number,
             date |-> IF checks[i].date = NoDate THEN ""
                      ELSE Str(checks[i].date.year) \o "-" \o Pad2(checks[i].date.month)
                             \o "-" \o Pad2(checks[i].date.day),
             amount |-> checks[i].amount]]

-----------------------------------------------------------------------------
(***************************** bounded inputs ******************************)

\* All sequences over S of length at most n, and those without repetition
SeqsUpTo(S, n) == UNION {[1..k -> S] : k \in 0..n}
InjSeqsUpTo(S, n) ==
    {f \in SeqsUpTo(S, n) : \A i, j \in 1..Len(f) : i # j => f[i] # f[j]}

\* ''.join(parts)
RECURSIVE Concat(_)
Concat(parts) == IF parts = <<>> THEN "" ELSE parts[1] \o Concat(Tail(parts))

\* An OCR token whose bounding polygon is the rectangle (x1, y1)-(x2, y2)
Tok(desc, x1, y1, x2, y2) ==
    [description |-> desc,
     vertices |-> <<[x |-> x1, y |-> y1], [x |-> x2, y |-> y1],
                    [x |-> x2, y |-> y2], [x |-> x1, y |-> y2]>>]
\* A token the provider returned with a degenerate polygon (3 vertices)
Tok3(desc, x1, y1, x2, y2) ==
    [description |-> desc,
     vertices |-> <<[x |-> x1, y |-> y1], [x |-> x2, y |-> y1], [x |-> x2, y |-> y2]>>]
\* textAnnotations for a full text and its word tokens: the first element
\* duplicates the full text
Annotations(text, toks) == <<Tok(text, 0, 0, 99, 99)>> \o toks

\* ---- payee candidates handed to clean_payee_name / is_valid_payee
MaxCandParts == 3
CandParts == {"OF ", "RD ", "ACME", " ", ".", "12", "$", ", CA", " 92335", "co", "1/2/24"}
Candidates == {Concat(f) : f \in SeqsUpTo(CandParts, MaxCandParts)}

\* ---- OCR results handed to extract_payee_name
MaxPayeeLines == 2
MaxPayeeTokens == 3
AcmeLine == "PAY TO THE ORDER OF ACME SUPPLY CO."
PayeeLinePool ==
    {AcmeLine, "OF", "JOHN SMITH", "ORDER OF FONTANA, CA 92335", "Springfield, il",
     "RD OF BOB JONES", "TWO HUNDRED DOLLARS", "1234"}
PayeeTokenPool ==
    {Tok("OF", 50, 10, 60, 20), Tok("ACME", 10, 10, 20, 20), Tok("SUPPLY", 25, 12, 45, 22),
     Tok("FONTANA,", 30, 11, 40, 21), Tok("CA", 42, 10, 48, 20), Tok("MEMO", 10, 40, 20, 50)}
PayeeTexts == {Join(f, "\n") : f \in SeqsUpTo(PayeeLinePool, MaxPayeeLines)}
PayeeTokenLists == InjSeqsUpTo(PayeeTokenPool, MaxPayeeTokens)
\* Texts on which no text strategy finds a payee, so that the tokens decide
SpatialTexts == {"", "1234", "TWO HUNDRED DOLLARS\n1234"}
\* A token layout that reads "ACME SUPPLY" to the left of "OF"
AcmeLayout ==
    <<Tok("PAY", 0, 10, 8, 20), Tok("ACME", 10, 10, 20, 20), Tok("SUPPLY", 25, 12, 45, 22),
      Tok("OF", 50, 10, 60, 20)>>
\* Texts of three lines in which a later strategy has a candidate on an earlier
\* line than the strategy that wins
PriorityTexts ==
    {Join(<<"JOHN SMITH", "OF", AcmeLine>>, "\n"),
     Join(<<"BOB JONES", "JOHN SMITH", "OF">>, "\n"),
     Join(<<"JOHN SMITH", "1234", "RD OF BOB JONES">>, "\n")}
\* Token layouts for the spatial strategy: more than four words left of OF in
\* shuffled order; a word starting with "$"; a word with a 3-vertex polygon;
\* two OF tokens on different lines; a 3-vertex OF before a regular one; words
\* touching the anchor or exactly 0.8 heights off its center; stop words, a
\* number and a single letter; two words with the same left edge
SpatialLayouts ==
    LET OF == Tok("OF", 50, 10, 60, 20)
        ACME == Tok("ACME", 10, 10, 20, 20)
        BOB == Tok("BOB", 10, 40, 20, 50)
    IN  { <<Tok("SUPPLY", 25, 12, 45, 22), OF, Tok("JOHN", 2, 10, 6, 20), ACME,
            Tok("AND", 21, 10, 24, 20), Tok("SONS", 46, 10, 49, 20), Tok("BIG", 7, 10, 9, 20)>>,
          <<Tok("$50", 2, 10, 8, 20), ACME, OF>>,
          <<ACME, Tok3("SUPPLY", 25, 12, 45, 22), OF>>,
          <<Tok("of", 30, 40, 40, 50), BOB, ACME, OF>>,
          <<Tok3("OF", 30, 40, 40, 50), BOB, ACME, OF>>,
          <<Tok("EDGE", 40, 10, 50, 20), Tok("LOW", 10, 18, 20, 28),
            Tok("NEAR", 22, 17, 30, 27), OF>>,
          <<Tok("PAY", 0, 10, 8, 20), Tok("12.50", 9, 10, 12, 20), Tok("A", 13, 10, 14, 20),
            Tok("JOHN", 15, 10, 20, 20), OF>>,
          <<Tok("SMITH", 10, 11, 30, 21), ACME, OF>> }
\* textAnnotations whose first element has a narrow box at the left of the line
NarrowFirst(text, toks) == <<Tok(text, 0, 10, 5, 20)>> \o toks
\* (full text, word tokens): every text with no tokens or the fixed layout, and
\* every token list under the texts that leave the decision to the tokens
PayeeInputs ==
    {<<t, toks>> : t \in PayeeTexts \cup PriorityTexts, toks \in {<<>>, AcmeLayout}}
    \cup {<<t, toks>> : t \in SpatialTexts, toks \in PayeeTokenLists}

\* ---- OCR results handed to extract_check_number
MaxCheckLines == 2
MaxCheckTokens == 4
CheckLinePool == {"1234", "PAY TO", "12345 DATE", "^0012345^"}
CheckTokenPool ==
    {Tok("11111", 10, 0, 20, 5), Tok("22222", 30, 0, 40, 5), Tok("33333", 50, 3, 60, 8),
     Tok("4444", 35, 0, 40, 5), Tok3("55555", 70, 0, 80, 5), Tok("666666", 90, 0, 95, 5)}
\* Texts of more than ten lines: a standalone number as 11th line after ten
\* other lines (one of them with a number before DATE, or none), and as 10th
\* non-empty line after nine lines and two blank ones
TenLines == [i \in 1..10 |-> "PAY TO"]
LongCheckTexts ==
    {Join(TenLines \o <<"1234">>, "\n"),
     Join([TenLines EXCEPT ![10] = "12345 DATE"] \o <<"1234">>, "\n"),
     Join(SubSeq(TenLines, 1, 9) \o <<"", "  ", "1234">>, "\n")}
CheckTexts ==
    {Join(f, "\n") : f \in SeqsUpTo(CheckLinePool, MaxCheckLines)} \cup LongCheckTexts
CheckTokenLists == InjSeqsUpTo(CheckTokenPool, MaxCheckTokens)

\* ---- payee / check-number strings handed to calculate_confidence
MaxConfParts == 3
ConfParts == {"ACME", " ", "CO", "Inc", "1", ", CA", "TWO", NotFound, "Supply Company"}
ConfPayees == {Concat(f) : f \in SeqsUpTo(ConfParts, MaxConfParts)}
ConfChecks == {NotFound, "", "1234", "12345", "0", "n/a"}
\* The full text handed over with them; calculate_confidence does not read it
ConfText == "PAY TO THE ORDER OF"

-----------------------------------------------------------------------------
(************************ statements and remote answers *********************)

\* ---- the grid pd.read_csv hands to parse_statement: at least one row, all
\* rows of the same width (a blank line of the file is not a row of the grid)
MaxRows == 4
Header == <<"Check No", "Date", "Amount">>
TransHeader == <<"Trans", "Posted", "Debit">>
BlankRow == <<"", " ", "">>
GridRows ==
    {Header, BlankRow,
     <<"9", "01/02/2024", "$1,200.50">>,
     <<"10", "", "">>,
     <<" 10", "13/02/2024", "75">>}
DataRows ==
    (GridRows \ {Header, BlankRow})
    \cup {<<"NaN", "Jan 5, 2024", "0">>,
          <<" ", "1/2/24", "5">>,
          <<"true", "2024-02-30", "x">>,
          <<"2050", "2024-01-03", "40">>,
          <<"2050", "", "12.5">>}
\* Every grid of at most MaxRows rows, and the statements of one or two
\* sections with every choice of data rows
Statements ==
    (SeqsUpTo(GridRows, MaxRows) \ {<<>>})
    \cup {<<Header, a, b>> : a, b \in DataRows}
    \cup {<<Header, a, BlankRow, TransHeader, b>> : a, b \in DataRows}

\* ---- what the remote classifier may do for a section of three columns
NoMapping == Mapping(JMissing, JMissing, JMissing)
Responses ==
    {Response("raise", NoMapping), Response("not_json", NoMapping),
     Response("not_object", NoMapping)}
    \cup {Response("object", m) :
            m \in {Mapping(JInt(0), JInt(1), JInt(2)),
                   Mapping(JInt(0), JNull, JMissing),
                   Mapping(JInt(3), JInt(1), JInt(2)),
                   Mapping(JInt(0), JInt(-1), JFloat(2)),
                   Mapping(JStr(0), JInt(1), JInt(2)),
                   Mapping(JBool(TRUE), JInt(1), JInt(2)),
                   Mapping(JInt(0), JBool(FALSE), JInt(2)),
                   Mapping(JMissing, JInt(1), JInt(2))}}

-----------------------------------------------------------------------------
(********************** extract_check_info, step by step *******************)

IdleOcr ==
    /\ full_text = "" /\ texts = <<>>
    /\ payee_name = None /\ check_number = None /\ confidence = None
    /\ strategy = 0 /\ opc = "idle"
IdleClean ==
    /\ cand = "" /\ cleaned = None /\ recleaned = None /\ valid = None /\ cpc = "idle"
IdleStmt ==
    /\ df = <<>> /\ sections = <<>> /\ sec = <<>> /\ response = <<>> /\ col_map = <<>>
    /\ calls = <<>> /\ all_checks = <<>> /\ seen_check_numbers = <<>> /\ result = <<>>
    /\ processed = <<>> /\ exported = <<>> /\ spc = <<>>
IdleFetch ==
    /\ fetch_df = <<>> /\ csv_file = <<>> /\ idx = 0 /\ attempt = 0 /\ found = "unbound"
    /\ page = "" /\ ocr_tasks = <<>> /\ images = <<>> /\ relogins = 0
    /\ clicked = {} /\ reached = {} /\ updated = {} /\ ocr_writes = {} /\ fpc = "idle"
IdleSeed ==
    /\ upload = None /\ disk = {} /\ statement_id = None /\ http = 0 /\ served = 0
    /\ qpc = "idle"

\* Lines 36-37: without full text extract_check_info raises ValueError and
\* extracts nothing
NoText ==
    /\ opc = "start" /\ full_text = ""
    /\ opc' = "raised"
    /\ UNCHANGED <<full_text, texts, payee_name, check_number, confidence, strategy>>
    /\ UNCHANGED <<cleanVars, stmtVars, fetchVars, seedVars>>

\* Line 43, reached with a full text only:
\* payee_name = extract_payee_name(full_text, texts)
ExtractPayee ==
    /\ opc = "start" /\ full_text # ""
    /\ payee_name' = extract_payee_name(full_text, texts)
    /\ strategy' = PayeeResult(full_text, texts).strategy
    /\ opc' = "payee"
    /\ UNCHANGED <<full_text, texts, check_number, confidence>>
    /\ UNCHANGED <<cleanVars, stmtVars, fetchVars, seedVars>>

\* check_number = extract_check_number(full_text, texts)
ExtractCheckNumber ==
    /\ opc = "payee"
    /\ check_number' = extract_check_number(full_text, texts)
    /\ strategy' = CheckNumberResult(full_text, texts).strategy
    /\ opc' = "number"
    /\ UNCHANGED <<full_text, texts, payee_name, confidence>>
    /\ UNCHANGED <<cleanVars, stmtVars, fetchVars, seedVars>>

\* confidence = calculate_confidence(payee_name, check_number, full_text)
CalcConfidence ==
    /\ opc = "number"
    /\ confidence' = calculate_confidence(payee_name, check_number, full_text)
    /\ opc' = "done"
    /\ UNCHANGED <<full_text, texts, payee_name, check_number, strategy>>
    /\ UNCHANGED <<cleanVars, stmtVars, fetchVars, seedVars>>

\* The cleaning functions applied to one candidate: is_valid_payee(cand),
\* clean_payee_name(cand), then clean_payee_name on the cleaned value
Validate ==
    /\ cpc = "start"
    /\ valid' = is_valid_payee(cand)
    /\ cpc' = "validated"
    /\ UNCHANGED <<cand, cleaned, recleaned>>
    /\ UNCHANGED <<ocrVars, stmtVars, fetchVars, seedVars>>
Clean ==
    /\ cpc = "validated"
    /\ cleaned' = clean_payee_name(cand)
    /\ cpc' = "cleaned"
    /\ UNCHANGED <<cand, recleaned, valid>>
    /\ UNCHANGED <<ocrVars, stmtVars, fetchVars, seedVars>>
Reclean ==
    /\ cpc = "cleaned"
    /\ recleaned' = clean_payee_name(cleaned)
    /\ cpc' = "done"
    /\ UNCHANGED <<cand, cleaned, valid>>
    /\ UNCHANGED <<ocrVars, stmtVars, fetchVars, seedVars>>

-----------------------------------------------------------------------------
(************************* specifications: image path **********************)

\* extract_payee_name on an OCR result, and the cleaning functions on a candidate
InitPayee ==
    /\ \/ \E in \in PayeeInputs :
             /\ full_text = in[1]
             /\ texts \in {<<>>, Annotations(in[1], in[2])}
       \/ \E t \in SpatialTexts, l \in SpatialLayouts :
             /\ full_text = t
             /\ texts \in {Annotations(t, l), NarrowFirst(t, l)}
    /\ payee_name = None /\ check_number = None /\ confidence = None
    /\ strategy = 0 /\ opc = "start"
    /\ IdleClean /\ IdleStmt /\ IdleFetch /\ IdleSeed
InitCand ==
    /\ cand \in Candidates
    /\ cleaned = None /\ recleaned = None /\ valid = None /\ cpc = "start"
    /\ IdleOcr /\ IdleStmt /\ IdleFetch /\ IdleSeed
NextPayee == NoText \/ ExtractPayee \/ Validate \/ Clean \/ Reclean
SpecPayee == (InitPayee \/ InitCand) /\ [][NextPayee]_vars

\* extract_check_number on an OCR result (line 46 is reached with a full text)
InitCheckNumber ==
    /\ full_text \in CheckTexts \ {""}
    /\ texts \in {<<>>} \cup {Annotations(full_text, toks) : toks \in CheckTokenLists}
    /\ payee_name = NotFound /\ check_number = None /\ confidence = None
    /\ strategy = 0 /\ opc = "payee"
    /\ IdleClean /\ IdleStmt /\ IdleFetch /\ IdleSeed
SpecCheckNumber == InitCheckNumber /\ [][ExtractCheckNumber]_vars

\* calculate_confidence on a payee string and a check-number string
InitConfidence ==
    /\ full_text = ConfText /\ texts = <<>>
    /\ payee_name \in ConfPayees /\ check_number \in ConfChecks /\ confidence = None
    /\ strategy = 0 /\ opc = "number"
    /\ IdleClean /\ IdleStmt /\ IdleFetch /\ IdleSeed
SpecConfidence == InitConfidence /\ [][CalcConfidence]_vars

-----------------------------------------------------------------------------
(************************ parse_statement, step by step ********************)

\* The runs of parse_statement, and the section a run is processing
Runs == DOMAIN spc
Section(r) == sections[r][sec[r]]

\* Variant: a remote call that raised is tried once more before the fallback
classifier_calls_retry(column_info, resp, s) ==
    IF column_info = <<>> THEN <<>>
    ELSE IF resp.kind = "raise" THEN <<<<"llm", s>>, <<"llm", s>>, <<"fallback", s>>>>
    ELSE <<<<"llm", s>>>> \o (IF resp.kind = "object" THEN <<>> ELSE <<<<"fallback", s>>>>)
\* The invocations _map_columns_with_llm makes for a section: the remote call,
\* then _fallback_mapping when the try block raised
classifier_calls(column_info, resp, s) ==
    IF column_info = <<>> THEN <<>>
    ELSE <<<<"llm", s>>>> \o (IF resp.kind = "object" THEN <<>> ELSE <<<<"fallback", s>>>>)

\* Lines 288-290: the number of the first section after s that is not empty
\* (section_df.empty: no data row or no column), Len(secs) + 1 when none is left
next_section(secs, s) ==
    MinOf({i \in (s + 1)..Len(secs) :
              Len(secs[i].rows) > 0 /\ Len(secs[i].columns) > 0} \cup {Len(secs) + 1})

\* Lines 260-283: the grid is scanned into sections; no section, no records
Scan(r) ==
    /\ spc[r] = "start"
    /\ sections' = [sections EXCEPT ![r] = ScanRows(df[r], 1, <<>>)]
    /\ IF sections'[r] = <<>>
       THEN /\ result' = [result EXCEPT ![r] = <<>>]
            /\ spc' = [spc EXCEPT ![r] = "done"]
            /\ sec' = sec
       ELSE /\ sec' = [sec EXCEPT ![r] = next_section(sections'[r], 0)]
            /\ spc' = [spc EXCEPT ![r] =
                          IF sec'[r] <= Len(sections'[r]) THEN "classify" ELSE "sort"]
            /\ result' = result
    /\ UNCHANGED <<df, response, col_map, calls, all_checks, seen_check_numbers,
                   processed, exported, ocrVars, cleanVars,
                   fetchVars, seedVars>>

\* Lines 204-205: parse_csv_section asks for the mapping of the section; the
\* remote classifier answers or fails, and _map_columns_with_llm returns
Classify(r) ==
    /\ spc[r] = "classify"
    /\ \E resp \in Responses :
         LET column_info == prepare_column_analysis(Section(r))
         IN  /\ response' = [response EXCEPT ![r] = resp]
             /\ col_map' = [col_map EXCEPT ![r] = map_columns_with_llm(column_info, resp)]
             /\ calls' = [calls EXCEPT ![r] = @ \o classifier_calls(column_info, resp, sec[r])]
    /\ spc' = [spc EXCEPT ![r] = "extract"]
    /\ UNCHANGED <<df, sections, sec, all_checks, seen_check_numbers, processed, result,
                   exported, ocrVars, cleanVars,
                   fetchVars, seedVars>>

\* Variant: the set of seen identifiers is one set shared by all runs
run_seen_shared(seen, r) == UNION {seen[q] : q \in DOMAIN seen}
\* The set a run consults for duplicates: seen_check_numbers is a local of the
\* call (line 286), so it holds what this run saw and nothing else
run_seen(seen, r) == seen[r]

\* Lines 207-253 and 295-298: the rows of the section become records, those
\* with a new check_number are kept, and the loop moves to the next section
ExtractSection(r) ==
    /\ spc[r] = "extract"
    /\ LET checks == section_checks(Section(r), col_map[r])
           kept == Dedup(all_checks[r], run_seen(seen_check_numbers, r), checks)
       IN  /\ all_checks' = [all_checks EXCEPT ![r] = kept.all_checks]
           /\ seen_check_numbers' =
                  [seen_check_numbers EXCEPT ![r] = kept.seen_check_numbers]
           /\ processed' = [processed EXCEPT ![r] =
                  Append(@, [col_map |-> col_map[r], checks |-> checks])]
    /\ IF next_section(sections[r], sec[r]) <= Len(sections[r])
       THEN /\ sec' = [sec EXCEPT ![r] = next_section(sections[r], @)]
            /\ spc' = [spc EXCEPT ![r] = "classify"]
       ELSE sec' = sec /\ spc' = [spc EXCEPT ![r] = "sort"]
    /\ UNCHANGED <<df, sections, response, col_map, calls, result, exported,
                   ocrVars, cleanVars,
                   fetchVars, seedVars>>

\* Lines 300-313: the kept records are sorted in place, exported and returned
SortAndReturn(r) ==
    /\ spc[r] = "sort"
    /\ all_checks' = [all_checks EXCEPT ![r] = sort_checks(@)]
    /\ exported' = [exported EXCEPT ![r] = export_rows(all_checks'[r])]
    /\ result' = [result EXCEPT ![r] = all_checks'[r]]
    /\ spc' = [spc EXCEPT ![r] = "done"]
    /\ UNCHANGED <<df, sections, sec, response, col_map, calls, seen_check_numbers,
                   processed, ocrVars, cleanVars,
                   fetchVars, seedVars>>

-----------------------------------------------------------------------------
(************************ specification: statement path ********************)

\* The state of the runs in ids when parse_statement is entered on the grids d
StartRuns(d) ==
    /\ df = d
    /\ sections = [r \in DOMAIN d |-> <<>>]
    /\ sec = [r \in DOMAIN d |-> 0]
    /\ response = [r \in DOMAIN d |-> Response(None, NoMapping)]
    /\ col_map = [r \in DOMAIN d |-> NoMapping]
    /\ calls = [r \in DOMAIN d |-> <<>>]
    /\ all_checks = [r \in DOMAIN d |-> <<>>]
    /\ seen_check_numbers = [r \in DOMAIN d |-> {}]
    /\ processed = [r \in DOMAIN d |-> <<>>]
    /\ result = [r \in DOMAIN d |-> None]
    /\ exported = [r \in DOMAIN d |-> None]
    /\ spc = [r \in DOMAIN d |-> "start"]

\* One run of parse_statement on any statement
Init ==
    /\ \E d \in [{1} -> Statements] : StartRuns(d)
    /\ IdleOcr /\ IdleClean /\ IdleFetch /\ IdleSeed

Next == \E r \in Runs : Scan(r) \/ Classify(r) \/ ExtractSection(r) \/ SortAndReturn(r)

Spec == Init /\ [][Next]_vars

\* One run on a statement of one section whose column names and samples put
\* the fallback scores on, above and below the thresholds, with and without
\* equal scores
FallbackHeaders ==
    {<<"A", "B", "C">>,
     <<"N", "Ref Date", "Trans Debit">>,
     <<"Chk", "Posted Amount", "Amount Date">>}
FallbackRows ==
    {<<"x", "01/02/2024", "-5">>,
     <<"x", "y", "-3">>,
     <<"12", "12", "12">>,
     <<"7", "Jan 5, 2024", "2024-01-03">>,
     <<"AB", "40", "0.5">>,
     <<"0", "0", "x">>}
\* Three samples a column.  The amount scores of columns 0 and 1 are 45.0 and
\* 45.0 in the first, 29.999999999999996 and 30.0 in the second, and 85.0 and
\* 85.0 in the third, where the samples of column 0 add up to
\* 3.0000000000000004
FallbackSamples ==
    {<<<<"2", "2", "x">>, <<"0", "0", "x">>, <<"0", "x", "x">>>>,
     <<<<"0.5", "0.5", "x">>, <<"0", "0", "x">>, <<"0", "x", "x">>>>,
     <<<<"0.1", "2", "x">>, <<"2.7", "2", "x">>, <<"0.2", "2", "x">>>>}
FallbackStatements ==
    {<<h, a>> : h \in FallbackHeaders, a \in FallbackRows}
    \cup {<<h, a, b>> : h \in FallbackHeaders, a \in FallbackRows, b \in FallbackRows}
    \cup {<<h>> \o rows : h \in FallbackHeaders, rows \in FallbackSamples}
InitFallback ==
    /\ \E d \in [{1} -> FallbackStatements] : StartRuns(d)
    /\ IdleOcr /\ IdleClean /\ IdleFetch /\ IdleSeed
SpecFallback == InitFallback /\ [][Next]_vars

\* Two runs of parse_statement on the module-level parser, their steps taken
\* in any order (one after the other included)
PairStatements ==
    {<<Header>>,
     <<Header, <<"10", "", "">>>>,
     <<Header, <<"2050", "2024-01-03", "40">>, <<"9", "01/02/2024", "$1,200.50">>>>,
     <<Header, <<"2050", "", "12.5">>, BlankRow,
       TransHeader, <<"2050", "2024-01-03", "40">>>>}
InitTwoRuns ==
    /\ \E d \in [{1, 2} -> PairStatements] : StartRuns(d)
    /\ IdleOcr /\ IdleClean /\ IdleFetch /\ IdleSeed
SpecTwoRuns == InitTwoRuns /\ [][Next]_vars

-----------------------------------------------------------------------------
(************************ fetch_images.py: main, step by step ***************)

\* int(s): the integer as <<n>>, <<>> when int raises ValueError
PyInt(s) ==
    With(Strip(s), LAMBDA x :
        IF IsDigitPart(Unsigned(x)) THEN <<SignOf(x) * DigitsValue(Unsigned(x))>> ELSE <<>>)
\* s.lstrip('0') or '0'
LStripZeros(s) ==
    With(Drop(s, LeadRun(s, 1, {"0"})), LAMBDA t : IF t = "" THEN "0" ELSE t)
\* to_int_safe(v) of lines 192-196 and 403-407: <<n>>, or <<>> for None
to_int_safe(v) == PyInt(LStripZeros(Strip(v)))

\* Lines 232-240: the row's check number is usable
IsFetchable(number) ==
    With(Strip(number), LAMBDA c :
        c # "" /\ Lower(c) # "nan" /\ PyInt(LStripZeros(c)) # <<>>)

\* Lines 338-339, without the directory
front_path(number) == "check_" \o number \o "_front.png"
back_path(number) == "check_" \o number \o "_back.png"

\* A row of the parsed CSV after the missing columns were added (lines 128-141);
\* the confidence cell is <<>> while blank and <<c>> once a number was written
FetchRow(number) ==
    [number |-> number, bank |-> "", img_front_path |-> "", img_back_path |-> "",
     payee_name |-> "", confidence |-> <<>>, source |-> ""]

\* Lines 197-209 / 408-420: the row an OCR result is written to, 0 for None.
\* Rows whose number equals the number the OCR read come first; the queued
\* number is looked up only when there is none.
ocr_row_idx(rows, ocr_check, queued) ==
    LET target_num == to_int_safe(ocr_check)
        by_number == {i \in 1..Len(rows) :
                        target_num # <<>> /\ to_int_safe(rows[i].number) = target_num}
        by_string == {i \in 1..Len(rows) : rows[i].number = queued}
        idx_list == IF by_number # {} THEN by_number ELSE by_string
    IN  IF idx_list = {} THEN 0 ELSE MinOf(idx_list)

\* Lines 210-214 / 421-425: the frame with the OCR result written to row_idx
ocr_update(rows, res, row_idx) ==
    [rows EXCEPT ![row_idx].payee_name = res.payee_name,
                 ![row_idx].confidence = <<res.confidence>>,
                 ![row_idx].source = "ocr"]

\* ---- bounded inputs
MaxFetchChecks == 2
MaxRelogins == 1
\* Check numbers of the parsed CSV: two numeric ones and an alphanumeric one
FetchNumbers == {"1001", "1002", "AB12"}
FetchFrames ==
    {[i \in 1..Len(f) |-> FetchRow(f[i])] :
        f \in InjSeqsUpTo(FetchNumbers, MaxFetchChecks) \ {<<>>}}
ImagePaths == {front_path(n) : n \in FetchNumbers} \cup {back_path(n) : n \in FetchNumbers}
\* What extract_check_info can return for an image that shows the check
\* `shown`: the number printed on it, another 4-digit number of the image (a
\* misread digit, the year of the date), or the sentinel; a payee or the sentinel
OcrMisreads == {"1002", "2024"}
OcrPayees == {"ACME CO", NotFound}
OcrResults(shown) ==
    {[check_number |-> c, payee_name |-> p, confidence |-> calculate_confidence(p, c, "")] :
        c \in {shown, NotFound} \cup OcrMisreads, p \in OcrPayees}

\* The row after the loop body of row i, or the OCR stage after the last row
AfterCheck(i) == IF i < Len(fetch_df) THEN "row" ELSE "ocr"

\* Lines 175-177: 30 minutes have elapsed at the head of the loop; the frame
\* is saved and the pending OCR tasks are processed before the new login
Relogin ==
    /\ fpc = "row" /\ relogins < MaxRelogins
    /\ relogins' = relogins + 1
    /\ csv_file' = fetch_df
    /\ fpc' = "ocr_mid"
    /\ UNCHANGED <<fetch_df, idx, attempt, found, page, ocr_tasks, images,
                   clicked, reached, updated, ocr_writes>>
    /\ UNCHANGED <<stmtVars, ocrVars, cleanVars, seedVars>>

\* Lines 219-230: the tasks are cleared, the context is closed and the session
\* is initialized again; main returns (through finally) when that fails
Reinitialize ==
    /\ fpc = "ocr_mid" /\ ocr_tasks = <<>>
    /\ \/ page' = "list" /\ fpc' = "row" /\ UNCHANGED csv_file
       \/ csv_file' = fetch_df /\ fpc' = "done" /\ UNCHANGED page
    /\ UNCHANGED <<fetch_df, idx, attempt, found, ocr_tasks, images, relogins,
                   clicked, reached, updated, ocr_writes>>
    /\ UNCHANGED <<stmtVars, ocrVars, cleanVars, seedVars>>

\* Lines 232-242: a row without a usable check number is skipped
BeginCheck ==
    /\ fpc = "row"
    /\ IF IsFetchable(fetch_df[idx].number)
       THEN attempt' = 1 /\ fpc' = "attempt" /\ UNCHANGED idx
       ELSE idx' = idx + 1 /\ fpc' = AfterCheck(idx) /\ UNCHANGED attempt
    /\ UNCHANGED <<fetch_df, csv_file, found, page, ocr_tasks, images, relogins,
                   clicked, reached, updated, ocr_writes>>
    /\ UNCHANGED <<stmtVars, ocrVars, cleanVars, seedVars>>

\* How one search attempt can end.  no_panel, no_inputs, no_submit: the panel
\* cannot be opened (254-256), the inputs do not show (265-267), the submit
\* times out (279-281), each followed by `continue`.  not_found, clicked: the
\* table was searched.  raised: an exception that no inner handler catches
\* (is_visible, fill of lines 270-273, a submit error that is not a timeout)
\* reaches line 385 before found is assigned; raised_search: the same from
\* line 287, after found = False of line 284.  interrupted_search,
\* interrupted_click: KeyboardInterrupt, which only line 431 catches, arrives
\* after line 284 while the rows are listed, or inside the click of line 297
\* (316) when the record page is open and line 298 (317) not yet reached.
AttemptOutcomes ==
    {"no_panel", "no_inputs", "no_submit", "not_found", "clicked", "raised",
     "raised_search", "interrupted_search", "interrupted_click"}

\* Lines 245-328, 385-387 and 431-437: one search attempt.  found is assigned
\* only once the table is searched (line 284).  An exception that reaches
\* the handler of line 385 ends the row at once: no second attempt, no test
\* of found.  An interrupt ends main: the frame is saved by the finally
\* clause.  The panel and the table are on the list page only.
Attempt ==
    /\ fpc = "attempt"
    /\ \E outcome \in AttemptOutcomes :
          /\ page # "list" => outcome \in {"no_panel", "raised"}
          /\ found' = CASE outcome = "clicked" -> "True"
                        [] outcome \in {"not_found", "raised_search",
                                        "interrupted_search", "interrupted_click"} -> "False"
                        [] OTHER -> found
          /\ page' = IF outcome \in {"clicked", "interrupted_click"}
                     THEN Strip(fetch_df[idx].number) ELSE page
          /\ clicked' = IF outcome \in {"clicked", "interrupted_click"}
                        THEN clicked \cup {idx} ELSE clicked
          /\ CASE outcome \in {"interrupted_search", "interrupted_click"} ->
                    /\ csv_file' = fetch_df /\ fpc' = "done"
                    /\ UNCHANGED <<idx, attempt>>
               [] outcome \in {"raised", "raised_search"} ->
                    /\ idx' = idx + 1 /\ fpc' = AfterCheck(idx)
                    /\ UNCHANGED <<attempt, csv_file>>
               [] outcome = "clicked" \/ attempt = 2 ->
                    fpc' = "decide" /\ UNCHANGED <<idx, attempt, csv_file>>
               [] OTHER ->
                    /\ fpc' = "attempt" /\ attempt' = attempt + 1
                    /\ UNCHANGED <<idx, csv_file>>
    /\ UNCHANGED <<fetch_df, ocr_tasks, images, relogins, reached, updated, ocr_writes>>
    /\ UNCHANGED <<stmtVars, ocrVars, cleanVars, seedVars>>

\* Lines 330-332 and 385-387: `if not found: continue`.  Reading found before
\* any assignment raises UnboundLocalError, which the handler of line 385
\* turns into a skip as well.
Decide ==
    /\ fpc = "decide"
    /\ IF found = "True"
       THEN fpc' = "capture" /\ reached' = reached \cup {idx} /\ UNCHANGED idx
       ELSE idx' = idx + 1 /\ fpc' = AfterCheck(idx) /\ UNCHANGED reached
    /\ UNCHANGED <<fetch_df, csv_file, attempt, found, page, ocr_tasks, images,
                   relogins, clicked, updated, ocr_writes>>
    /\ UNCHANGED <<stmtVars, ocrVars, cleanVars, seedVars>>

\* How the capture of one image can end: saved, the wait for it timed out
\* (346-348, 359-361: the path becomes None), or an error that is not a
\* timeout, which reaches line 385
CaptureOutcomes == {"saved", "timeout", "raised"}

\* Lines 334-374, 385-387 and 431-437: the images on the page are saved under
\* the names of this row's check number, a front image is queued for OCR, and
\* the row gets the bank and the paths.  An exception that reaches line 385
\* ends the row at once, without the update of lines 364-374 and without the
\* way back: from line 334 or the front capture (front = "raised") before
\* anything was saved, from the back capture after the front image was saved
\* and queued.  KeyboardInterrupt ends main after any of the steps (the
\* finally clause saves the frame); stop is the last step that was done:
\*   1 front screenshot (344)   2 task queued (351)   3 back screenshot (357)
\*   4 bank written (366)       5 front path (368)    6 back path (370)
\*   7 to_csv (371): the block is through
\* A step whose image was not found, or whose path is None, does nothing.
Capture ==
    /\ fpc = "capture"
    /\ \E front \in CaptureOutcomes, back \in CaptureOutcomes, stop \in 1..7 :
          LET number == Strip(fetch_df[idx].number)
              raised == front = "raised" \/ back = "raised"
              queued == front = "saved" /\ stop >= 2
              shots == (IF front = "saved" THEN {front_path(number)} ELSE {})
                       \cup (IF back = "saved" /\ stop >= 3
                             THEN {back_path(number)} ELSE {})
              writes == ~raised /\ (front = "saved" \/ back = "saved") /\ stop >= 4
          IN  /\ page = "list" => front # "saved" /\ back # "saved"
              /\ front = "raised" => back = "raised"
              /\ raised => stop = 7
              /\ images' = [p \in ImagePaths |-> IF p \in shots THEN page ELSE images[p]]
              /\ ocr_tasks' = IF queued
                              THEN Append(ocr_tasks, <<front_path(number), number>>)
                              ELSE ocr_tasks
              /\ IF writes
                 THEN /\ fetch_df' =
                           [fetch_df EXCEPT
                               ![idx].bank = "chase",
                               ![idx].img_front_path =
                                   IF front = "saved" /\ stop >= 5
                                   THEN front_path(number) ELSE @,
                               ![idx].img_back_path =
                                   IF back = "saved" /\ stop >= 6
                                   THEN back_path(number) ELSE @]
                      /\ csv_file' = fetch_df'
                      /\ updated' = updated \cup {idx}
                 ELSE /\ UNCHANGED <<fetch_df, updated>>
                      /\ csv_file' = IF stop < 7 THEN fetch_df ELSE csv_file
              /\ CASE stop < 7 -> fpc' = "done" /\ UNCHANGED idx
                   [] raised -> idx' = idx + 1 /\ fpc' = AfterCheck(idx)
                   [] OTHER -> fpc' = "back" /\ UNCHANGED idx
    /\ UNCHANGED <<attempt, found, page, relogins, clicked, reached, ocr_writes>>
    /\ UNCHANGED <<stmtVars, ocrVars, cleanVars, seedVars>>

\* Lines 376-383 and 431-437: back to the list; when the button cannot be
\* clicked the page stays where it is and the loop continues with the next
\* row.  KeyboardInterrupt during the wait of line 379, after the click, ends
\* main on the list with the row not left.
GoBack ==
    /\ fpc = "back"
    /\ \/ /\ page # "list" /\ page' = "list"
          /\ idx' = idx + 1 /\ fpc' = AfterCheck(idx) /\ UNCHANGED csv_file
       \/ /\ idx' = idx + 1 /\ fpc' = AfterCheck(idx) /\ UNCHANGED <<page, csv_file>>
       \/ /\ page # "list" /\ page' = "list"
          /\ csv_file' = fetch_df /\ fpc' = "done" /\ UNCHANGED idx
    /\ UNCHANGED <<fetch_df, attempt, found, ocr_tasks, images, relogins,
                   clicked, reached, updated, ocr_writes>>
    /\ UNCHANGED <<stmtVars, ocrVars, cleanVars, seedVars>>

\* Lines 182-218 / 393-429 and 431-437: one completed OCR task (in completion
\* order); run_ocr returns None when extract_check_info raises.  The result
\* is written cell by cell: payee_name (422), confidence (424), source (425),
\* then to_csv; KeyboardInterrupt after `written` of the three cells ends
\* main with the row as it is (the finally clause saves the frame) and the
\* task list as it was.
OcrTask ==
    /\ fpc \in {"ocr_mid", "ocr"} /\ ocr_tasks # <<>>
    /\ \E k \in 1..Len(ocr_tasks), raised \in BOOLEAN, written \in 1..3 :
          \E res \in OcrResults(images[ocr_tasks[k][1]]) :
             LET row_idx == ocr_row_idx(fetch_df, res.check_number, ocr_tasks[k][2])
                 writes == ~raised /\ row_idx # 0 /\ res.payee_name # ""
             IN  /\ written < 3 => writes
                 /\ IF written = 3
                    THEN /\ ocr_tasks' = SubSeq(ocr_tasks, 1, k - 1)
                                         \o SubSeq(ocr_tasks, k + 1, Len(ocr_tasks))
                         /\ UNCHANGED fpc
                    ELSE fpc' = "done" /\ UNCHANGED ocr_tasks
                 /\ IF writes
                    THEN /\ fetch_df' =
                              IF written = 3 THEN ocr_update(fetch_df, res, row_idx)
                              ELSE [fetch_df EXCEPT
                                      ![row_idx].payee_name = res.payee_name,
                                      ![row_idx].confidence =
                                          IF written = 2 THEN <<res.confidence>> ELSE @]
                         /\ csv_file' = fetch_df'
                         /\ ocr_writes' = ocr_writes \cup
                               {[task |-> ocr_tasks[k][2], row |-> row_idx]}
                    ELSE UNCHANGED <<fetch_df, csv_file, ocr_writes>>
    /\ UNCHANGED <<idx, attempt, found, page, images, relogins, clicked, reached,
                   updated>>
    /\ UNCHANGED <<stmtVars, ocrVars, cleanVars, seedVars>>

\* Lines 435-445: all rows and OCR tasks are through; the frame is saved and
\* the context closed
Finish ==
    /\ fpc = "ocr" /\ ocr_tasks = <<>>
    /\ csv_file' = fetch_df
    /\ fpc' = "done"
    /\ UNCHANGED <<fetch_df, idx, attempt, found, page, ocr_tasks, images, relogins,
                   clicked, reached, updated, ocr_writes>>
    /\ UNCHANGED <<stmtVars, ocrVars, cleanVars, seedVars>>

\* Lines 431-445: KeyboardInterrupt, or an exception outside the handlers of
\* a row, ends main from any point of the loop or of the OCR stage: the frame
\* is saved as it is, and the OCR tasks still queued are never run.  Here it
\* arrives between two steps; Attempt, Capture, GoBack and OcrTask have it
\* arrive inside the step.
Interrupt ==
    /\ fpc \in {"row", "ocr_mid", "attempt", "decide", "capture", "back", "ocr"}
    /\ csv_file' = fetch_df
    /\ fpc' = "done"
    /\ UNCHANGED <<fetch_df, idx, attempt, found, page, ocr_tasks, images, relogins,
                   clicked, reached, updated, ocr_writes>>
    /\ UNCHANGED <<stmtVars, ocrVars, cleanVars, seedVars>>

\* reviewer.py load_csv (lines 8-46): the check number column is renamed, the
\* columns amount and date are added when missing, the confidence becomes a
\* float, 0.0 where it was blank.  A confidence of OcrResults is written to
\* the file with at most 16 digits and is read back as the same double.
load_csv(rows) ==
    [i \in 1..Len(rows) |->
        [check_number |-> rows[i].number, payee_name |-> rows[i].payee_name,
         amount |-> "", date |-> "", bank |-> rows[i].bank,
         img_front_path |-> rows[i].img_front_path,
         img_back_path |-> rows[i].img_back_path,
         confidence |-> IF rows[i].confidence = <<>> THEN Zero(1)
                        ELSE rows[i].confidence[1],
         source |-> rows[i].source]]

\* A CSV uploaded to the reviewer instead of the one at the path
ReviewerUploads == {<<FetchRow("2001")>>}

\* reviewer.py main, 'Save to Original File' (lines 68-72 and 170-173), once
\* main of fetch_images is through: the frame shown, loaded from the upload
\* when there is one and from the parsed CSV otherwise, is written over the
\* parsed CSV
SaveToOriginal ==
    /\ fpc = "done"
    /\ \E shown \in {csv_file} \cup ReviewerUploads : csv_file' = load_csv(shown)
    /\ fpc' = "reviewed"
    /\ UNCHANGED <<fetch_df, idx, attempt, found, page, ocr_tasks, images, relogins,
                   clicked, reached, updated, ocr_writes>>
    /\ UNCHANGED <<stmtVars, ocrVars, cleanVars, seedVars>>

\* main on a parsed CSV, after the session was initialized (lines 157-169)
InitFetch ==
    /\ fetch_df \in FetchFrames
    /\ csv_file = fetch_df
    /\ idx = 1 /\ attempt = 0 /\ found = "unbound" /\ page = "list"
    /\ ocr_tasks = <<>> /\ images = [p \in ImagePaths |-> None] /\ relogins = 0
    /\ clicked = {} /\ reached = {} /\ updated = {} /\ ocr_writes = {}
    /\ fpc = "row"
    /\ IdleStmt /\ IdleOcr /\ IdleClean /\ IdleSeed
NextFetch ==
    \/ Relogin \/ Reinitialize \/ BeginCheck \/ Attempt \/ Decide
    \/ Capture \/ GoBack \/ OcrTask \/ Finish \/ Interrupt \/ SaveToOriginal
SpecFetch == InitFetch /\ [][NextFetch]_vars

-----------------------------------------------------------------------------
(************************* app/main.py: seed_checks, step by step ***********)

\* Line 70
temp_path(id) == "temp_" \o id \o ".csv"
\* statement_parser.py line 309: file_path.replace('.csv', '_parsed.csv')
export_path(id) == "temp_" \o id \o "_parsed.csv"

\* ---- bounded inputs
MaxRequests == 2
\* Uploads: a file name and what the body is: empty, not a CSV pd.read_csv
\* accepts, or a statement
Uploads ==
    {[filename |-> f, body |-> b] :
        f \in {"jan.csv", "jan.txt"}, b \in {"empty", "invalid", "statement"}}
\* The values uuid4 may return
StatementIds == {"u1", "u2"}
\* How the call of parse_statement ends: it returns no record, returns records
\* (and has written the export), raises ValueError (line 264, the file could
\* not be read) or raises another exception (the export could not be written)
ParseOutcomes == {"no_checks", "checks", "ValueError", "Exception"}

\* Lines 45-47: only names ending in .csv are accepted
CheckExtension ==
    /\ qpc = "start"
    /\ IF EndsWith(upload.filename, ".csv")
       THEN qpc' = "read" /\ UNCHANGED http
       ELSE qpc' = "done" /\ http' = 400
    /\ UNCHANGED <<upload, disk, statement_id, served>>
    /\ UNCHANGED <<stmtVars, ocrVars, cleanVars, fetchVars>>

\* Lines 50-64: the body is read and validated in memory; an empty body and a
\* body that is not a CSV are answered with 400
ValidateCsv ==
    /\ qpc = "read"
    /\ IF upload.body = "statement"
       THEN qpc' = "validated" /\ UNCHANGED http
       ELSE qpc' = "done" /\ http' = 400
    /\ UNCHANGED <<upload, disk, statement_id, served>>
    /\ UNCHANGED <<stmtVars, ocrVars, cleanVars, fetchVars>>

\* Lines 69-72: the body is written to temp_<statement_id>.csv
WriteTemp ==
    /\ qpc = "validated"
    /\ \E id \in StatementIds :
          /\ temp_path(id) \notin disk
          /\ statement_id' = id
          /\ disk' = disk \cup {temp_path(id)}
    /\ qpc' = "written"
    /\ UNCHANGED <<upload, http, served>>
    /\ UNCHANGED <<stmtVars, ocrVars, cleanVars, fetchVars>>

\* Lines 74 and 87-92: parse_statement(temp_path) returns, or raises into the
\* handlers, which answer 400 for ValueError and 500 for anything else
ParseTemp ==
    /\ qpc = "written"
    /\ \E outcome \in ParseOutcomes :
          /\ disk' = IF outcome = "checks" THEN disk \cup {export_path(statement_id)} ELSE disk
          /\ CASE outcome = "ValueError" -> qpc' = "done" /\ http' = 400
               [] outcome = "Exception" -> qpc' = "done" /\ http' = 500
               [] OTHER -> qpc' = "parsed" /\ UNCHANGED http
    /\ UNCHANGED <<upload, statement_id, served>>
    /\ UNCHANGED <<stmtVars, ocrVars, cleanVars, fetchVars>>

\* Lines 76-86: the temporary file is removed and the response is built
RemoveAndRespond ==
    /\ qpc = "parsed"
    /\ disk' = disk \ {temp_path(statement_id)}
    /\ http' = 200
    /\ qpc' = "done"
    /\ UNCHANGED <<upload, statement_id, served>>
    /\ UNCHANGED <<stmtVars, ocrVars, cleanVars, fetchVars>>

\* The next request arrives; the files on disk stay
NextRequest ==
    /\ qpc = "done" /\ served < MaxRequests
    /\ upload' \in Uploads
    /\ served' = served + 1
    /\ statement_id' = None /\ http' = 0 /\ qpc' = "start"
    /\ UNCHANGED disk
    /\ UNCHANGED <<stmtVars, ocrVars, cleanVars, fetchVars>>

InitSeed ==
    /\ upload \in Uploads
    /\ disk = {} /\ statement_id = None /\ http = 0 /\ served = 1
    /\ qpc = "start"
    /\ IdleStmt /\ IdleOcr /\ IdleClean /\ IdleFetch
NextSeed ==
    \/ CheckExtension \/ ValidateCsv \/ WriteTemp \/ ParseTemp
    \/ RemoveAndRespond \/ NextRequest
SpecSeed == InitSeed /\ [][NextSeed]_vars

-----------------------------------------------------------------------------
(*************************** claims: statement path *************************)

\* The records parse_csv_section returned so far in run r, in document order
RECURSIVE ChecksOf(_)
ChecksOf(done) == IF done = <<>> THEN <<>> ELSE done[1].checks \o ChecksOf(Tail(done))
Emitted(r) == ChecksOf(processed[r])

\* An identifier cell that is empty or a placeholder once trimmed
IsPlaceholder(cell) == Lower(Strip(cell)) \in {"", "nan", "none", "true", "false"}

\* C1: whatever the statement and the classifier outcomes, the sequence
\* parse_statement returns is sorted non-decreasing by check_number under
\* code-point comparison of the strings (so "10" comes before "9").
C1_SortedByCodePoint ==
    \A r \in Runs : spc[r] = "done" =>
        \A i, j \in 1..Len(result[r]) :
            i < j => ~StrLess(result[r][j].check_number, result[r][i].check_number)
\* A run that returned "10" ahead of "9"
C1_Witness ==
    \E r \in Runs : spc[r] = "done" /\
        \E i, j \in 1..Len(result[r]) :
            i < j /\ result[r][i].check_number = "10" /\ result[r][j].check_number = "9"

\* C2: no two records parse_statement returns have the same check_number,
\* wherever the duplicates were in the statement.
C2_NoDuplicateIdentifier ==
    \A r \in Runs : spc[r] = "done" =>
        \A i, j \in 1..Len(result[r]) :
            i # j => result[r][i].check_number # result[r][j].check_number
\* A run whose two sections both yielded a record with the same identifier
C2_Witness ==
    \E r \in Runs : spc[r] = "done" /\ Len(processed[r]) = 2 /\
        \E i \in 1..Len(processed[r][1].checks), j \in 1..Len(processed[r][2].checks) :
            /\ processed[r][1].checks[i].check_number
                  = processed[r][2].checks[j].check_number
            /\ \E k \in 1..Len(result[r]) :
                  result[r][k].check_number = processed[r][1].checks[i].check_number

\* C3: first occurrence wins.  At every moment each kept record is the first
\* record, in document order, that was extracted with its identifier; a later
\* one never replaces or changes it, and the returned records are the kept ones.
C3_FirstOccurrenceWins ==
    \A r \in Runs :
        /\ \A k \in 1..Len(all_checks[r]) :
              LET same == {i \in 1..Len(Emitted(r)) :
                              Emitted(r)[i].check_number = all_checks[r][k].check_number}
              IN  same # {} /\ all_checks[r][k] = Emitted(r)[MinOf(same)]
        /\ spc[r] = "done" /\ sections[r] # <<>> => result[r] = all_checks[r]
\* A run in which a record without date and amount was followed by one with the
\* same identifier that had both, and the first is the one returned
C3_Witness ==
    \E r \in Runs : spc[r] = "done" /\
        \E i, j \in 1..Len(Emitted(r)) :
            /\ i < j
            /\ Emitted(r)[i].check_number = Emitted(r)[j].check_number
            /\ Emitted(r)[i].date = NoDate /\ Emitted(r)[i].amount = NoAmount
            /\ Emitted(r)[j].date # NoDate /\ Emitted(r)[j].amount # NoAmount
            /\ \E k \in 1..Len(result[r]) : result[r][k] = Emitted(r)[i]

\* C4: no record of parse_csv_section or parse_statement has an identifier that
\* is empty or "nan" / "none" / "true" / "false" (any case) once trimmed, and a
\* row whose identifier cell is one of these produces no record.
C4_NoPlaceholderIdentifier ==
    \A r \in Runs :
        /\ \A k \in 1..Len(all_checks[r]) : ~IsPlaceholder(all_checks[r][k].check_number)
        /\ spc[r] = "done" =>
              \A k \in 1..Len(result[r]) : ~IsPlaceholder(result[r][k].check_number)
        /\ \A s \in 1..Len(processed[r]) :
              LET p == processed[r][s]
                  rows == sections[r][s].rows
                  col == p.col_map.check_number
              IN  /\ \A k \in 1..Len(p.checks) : ~IsPlaceholder(p.checks[k].check_number)
                  /\ col.t = "int" =>
                        Len(p.checks) <= Cardinality({i \in 1..Len(rows) :
                                                        ~IsPlaceholder(rows[i][col.v + 1])})
\* A section with a mapped identifier column in which one row had a
\* placeholder identifier and another row became a record
C4_Witness ==
    \E r \in Runs : spc[r] = "done" /\
        \E s \in 1..Len(processed[r]) :
            LET p == processed[r][s]
                rows == sections[r][s].rows
                col == p.col_map.check_number
            IN  /\ col.t = "int"
                /\ \E i \in 1..Len(rows) : IsPlaceholder(rows[i][col.v + 1])
                /\ Len(p.checks) >= 1
                /\ \E k \in 1..Len(result[r]) : result[r][k] = p.checks[1]

\* A role value that is not a usable column index of a section of n columns
InvalidIndex(value, n) ==
    \/ value.t \in {"float", "str"}
    \/ value.t = "int" /\ (value.v < 0 \/ value.v > n - 1)

\* C10 (as stated): whenever the remote answer maps some role to a non-integer
\* or out-of-range value, the mapping used for the section is the one
\* _fallback_mapping computes.
C10_InvalidUsesFallback ==
    \A r \in Runs :
        (/\ spc[r] = "extract"
         /\ response[r].kind = "object"
         /\ \E role \in DOMAIN response[r].mapping :
               InvalidIndex(response[r].mapping[role], Len(Section(r).columns)))
        => col_map[r] = fallback_mapping(prepare_column_analysis(Section(r)))

\* C11 (as stated): whatever the remote classifier answers, every role of the
\* mapping _map_columns_with_llm returns is either None (null, or a key the
\* mapping does not have) or an integer index within [0, columnCount-1].
C11_RoleNullOrIndex ==
    \A r \in Runs : spc[r] = "extract" =>
        \A role \in DOMAIN col_map[r] :
            \/ IsNone(col_map[r][role])
            \/ /\ col_map[r][role].t = "int"
               /\ col_map[r][role].v >= 0
               /\ col_map[r][role].v <= Len(Section(r).columns) - 1

\* What parse_statement returns for the sections of run r when it runs alone,
\* given the mappings the classifier gave this run for its sections
RECURSIVE KeptAlone(_, _, _)
KeptAlone(r, s, kept) ==
    IF s > Len(processed[r]) THEN kept.all_checks
    ELSE KeptAlone(r, s + 1,
                   Dedup(kept.all_checks, kept.seen_check_numbers,
                         section_checks(sections[r][s], processed[r][s].col_map)))
ResultAlone(r) ==
    sort_checks(KeptAlone(r, 1, [all_checks |-> <<>>, seen_check_numbers |-> {}]))

\* C12: the set of seen identifiers belongs to one run of parse_statement.
\* When two runs on the shared parser are executed one after the other or
\* interleaved, each returns exactly the records it returns alone, its set of
\* seen identifiers holds only identifiers of its own records, and an
\* identifier the other run has seen is still returned by this run.
C12_RunsIndependent ==
    \A r \in Runs :
        /\ seen_check_numbers[r] =
               {Emitted(r)[i].check_number : i \in 1..Len(Emitted(r))}
        /\ spc[r] = "done" /\ sections[r] # <<>> =>
              /\ result[r] = ResultAlone(r)
              /\ \A i \in 1..Len(Emitted(r)) :
                    \E k \in 1..Len(result[r]) :
                        result[r][k].check_number = Emitted(r)[i].check_number
\* Run 2 returned the identifier "2050" although run 1, still between its two
\* sections, had already seen "2050"; run 1 then returns it as well
C12_Witness ==
    /\ Runs = {1, 2}
    /\ spc[1] = "classify" /\ sec[1] = 2 /\ "2050" \in seen_check_numbers[1]
    /\ spc[2] = "done"
    /\ \E k \in 1..Len(result[2]) : result[2][k].check_number = "2050"

\* The maximal runs of consecutive non-blank rows of a grid, as <<first, last>>
NonBlankRuns(rows) ==
    {run \in (1..Len(rows)) \X (1..Len(rows)) :
        /\ run[1] <= run[2]
        /\ \A i \in run[1]..run[2] : \E c \in 1..Len(rows[i]) : Strip(rows[i][c]) # ""
        /\ run[1] = 1 \/ IsBlankRow(rows[run[1] - 1])
        /\ run[2] = Len(rows) \/ IsBlankRow(rows[run[2] + 1])}

\* C13: the scan of parse_statement yields, in document order, exactly one
\* section for each maximal run of consecutive non-blank rows that has at least
\* two rows: the first row of the run is its header and the others its data.
\* A run of one row yields nothing, the last run is treated like the others,
\* and the classifier is only ever invoked on a section that has data rows.
C13_SectionsAreLongRuns ==
    \A r \in Runs : spc[r] # "start" =>
        LET long == {run \in NonBlankRuns(df[r]) : run[2] > run[1]}
        IN  /\ Len(sections[r]) = Cardinality(long)
            /\ \A s \in 1..Len(sections[r]) :
                  \E run \in long :
                      /\ Cardinality({other \in long : other[1] < run[1]}) = s - 1
                      /\ sections[r][s].columns = df[r][run[1]]
                      /\ sections[r][s].rows = SubSeq(df[r], run[1] + 1, run[2])
            /\ \A i \in 1..Len(calls[r]) :
                  /\ calls[r][i][2] \in 1..Len(sections[r])
                  /\ Len(sections[r][calls[r][i][2]].rows) >= 1
\* A grid whose first run is a single row, followed by a blank row and a run
\* of two rows that ends the grid: one section, and it was classified
C13_Witness ==
    \E r \in Runs :
        /\ spc[r] = "done" /\ Len(df[r]) = 4
        /\ ~IsBlankRow(df[r][1]) /\ IsBlankRow(df[r][2])
        /\ Len(sections[r]) = 1
        /\ sections[r][1].columns = df[r][3] /\ sections[r][1].rows = <<df[r][4]>>
        /\ \E i \in 1..Len(calls[r]) : calls[r][i] = <<"llm", 1>>

\* The section of run r as _fallback_mapping sees it, and whether the mapping
\* in use is the one _fallback_mapping computed
ColumnInfo(r) == prepare_column_analysis(Section(r))
FallbackUsed(r) == spc[r] = "extract" /\ response[r].kind # "object"
\* The scores of the columns of the section, in column order: ints for the
\* identifier and the date, doubles for the amount
CheckScores(r) == [c \in 1..Len(ColumnInfo(r)) |-> check_score(ColumnInfo(r)[c])]
DateScores(r) == [c \in 1..Len(ColumnInfo(r)) |-> date_score(ColumnInfo(r)[c])]
AmountScores(r) == [c \in 1..Len(ColumnInfo(r)) |-> amount_score(ColumnInfo(r)[c])]
\* The largest score of the columns, and the columns (from 1) that have it;
\* for the amount, column c has the largest score when no column's score is
\* greater
MaxScore(scores) == SeqMax(scores)
Best(scores) == {c \in 1..Len(scores) : scores[c] = MaxScore(scores)}
AmountBest(r) ==
    {c \in 1..Len(ColumnInfo(r)) :
        \A d \in 1..Len(ColumnInfo(r)) : ~DoubleLess(AmountScores(r)[c], AmountScores(r)[d])}
\* The largest amount score is above 20.0
AmountExceeds20(r) ==
    \E c \in AmountBest(r) : DoubleLess(DoubleOfInt(20), AmountScores(r)[c])

\* C14: in _fallback_mapping a role is mapped to a column if and only if the
\* largest score of the section's columns is strictly above the role's
\* threshold (30 for the identifier, 40 for the date, 20 for the amount), and
\* then the column it is mapped to has that largest score; a largest score
\* equal to the threshold or below it leaves the role None.
C14_MappedIffAboveThreshold ==
    \A r \in Runs : FallbackUsed(r) =>
        /\ col_map[r].check_number # JNull <=> MaxScore(CheckScores(r)) > 30
        /\ col_map[r].date # JNull <=> MaxScore(DateScores(r)) > 40
        /\ col_map[r].amount # JNull <=> AmountExceeds20(r)
        /\ col_map[r].check_number # JNull =>
              col_map[r].check_number.v + 1 \in Best(CheckScores(r))
        /\ col_map[r].date # JNull => col_map[r].date.v + 1 \in Best(DateScores(r))
        /\ col_map[r].amount # JNull => col_map[r].amount.v + 1 \in AmountBest(r)
\* A section whose best identifier score is exactly 30 (a sample match alone),
\* best date score exactly 40 and best amount score exactly 20.0: no role
\* mapped
C14_Witness ==
    \E r \in Runs :
        /\ FallbackUsed(r)
        /\ MaxScore(CheckScores(r)) = 30 /\ col_map[r].check_number = JNull
        /\ MaxScore(DateScores(r)) = 40 /\ col_map[r].date = JNull
        /\ \E c \in AmountBest(r) : AmountScores(r)[c] = DoubleOfInt(20)
        /\ col_map[r].amount = JNull

\* C15: in _fallback_mapping, when several columns share the largest score of
\* a role and that score is above the role's threshold, the role is mapped to
\* the column with the lowest index among them.
C15_LowestIndexWinsTie ==
    \A r \in Runs : FallbackUsed(r) =>
        /\ MaxScore(CheckScores(r)) > 30 =>
              col_map[r].check_number = JInt(MinOf(Best(CheckScores(r))) - 1)
        /\ MaxScore(DateScores(r)) > 40 =>
              col_map[r].date = JInt(MinOf(Best(DateScores(r))) - 1)
        /\ AmountExceeds20(r) => col_map[r].amount = JInt(MinOf(AmountBest(r)) - 1)
\* Three samples a column.  Columns 1 and 2 share the largest identifier score,
\* above 30, and column 0 scores less: the identifier is column 1.  Columns 0
\* and 1 share the largest amount score, 85.0, which column 0 has for samples
\* whose sum of doubles divided by 3 is above 1: the amount is column 0
C15_Witness ==
    \E r \in Runs :
        /\ FallbackUsed(r)
        /\ Len(Section(r).rows) = 3
        /\ MaxScore(CheckScores(r)) > 30
        /\ Best(CheckScores(r)) = {2, 3}
        /\ col_map[r].check_number = JInt(1)
        /\ AmountBest(r) = {1, 2}
        /\ AmountScores(r)[1] = DoubleOfInt(85)
        /\ AmountScores(r)[3] # AmountScores(r)[1]
        /\ col_map[r].amount = JInt(0)

\* The positions in the log of run r of the invocations of kind for section s
CallsAt(r, kind, s) == {i \in 1..Len(calls[r]) : calls[r][i] = <<kind, s>>}
\* The sections of run r for which _map_columns_with_llm has returned
Classified(r) ==
    IF spc[r] \in {"extract", "sort", "done"} /\ sections[r] # <<>>
    THEN 1..sec[r] ELSE 1..(sec[r] - 1)

\* C16 (as stated): the remote classifier is invoked exactly once for each
\* section, _fallback_mapping at most once, and _fallback_mapping only after
\* that remote invocation raised.
C16_FallbackOnlyAfterRaise ==
    \A r \in Runs :
        /\ \A s \in 1..Len(sections[r]) :
              /\ Cardinality(CallsAt(r, "llm", s)) = (IF s \in Classified(r) THEN 1 ELSE 0)
              /\ Cardinality(CallsAt(r, "fallback", s)) <= 1
        /\ spc[r] = "extract" /\ CallsAt(r, "fallback", sec[r]) # {} =>
              response[r].kind = "raise"

\* C16 (amended): for each section the remote classifier is invoked exactly
\* once and never again; _fallback_mapping is invoked at most once, after that
\* invocation, and exactly when the try block around it raised: the invocation
\* itself raised, or it returned text that is not JSON or not a JSON object.
C16_SingleAttemptThenFallback ==
    \A r \in Runs :
        /\ \A s \in 1..Len(sections[r]) :
              /\ Cardinality(CallsAt(r, "llm", s)) = (IF s \in Classified(r) THEN 1 ELSE 0)
              /\ Cardinality(CallsAt(r, "fallback", s)) <= 1
              /\ \A i \in CallsAt(r, "fallback", s) : \E j \in CallsAt(r, "llm", s) : j < i
        /\ spc[r] = "extract" =>
              (CallsAt(r, "fallback", sec[r]) # {}
                  <=> response[r].kind \in {"raise", "not_json", "not_object"})
\* A run of two sections: the remote call raised for the first, which got the
\* fallback mapping, and answered with an object for the second
C16_Witness ==
    \E r \in Runs :
        /\ spc[r] = "done" /\ Len(sections[r]) = 2
        /\ calls[r] = <<<<"llm", 1>>, <<"fallback", 1>>, <<"llm", 2>>>>
        /\ response[r].kind = "object"

\* The sections of run r, processed so far, whose mapping has no identifier
NoIdentifier(r) ==
    {s \in 1..Len(processed[r]) : IsNone(processed[r][s].col_map.check_number)}
\* What parse_statement returns for the statement of run r once the sections
\* in skip are removed from it, the other sections keeping their mappings
RECURSIVE KeptWithout(_, _, _, _)
KeptWithout(r, skip, s, kept) ==
    IF s > Len(processed[r]) THEN kept.all_checks
    ELSE IF s \in skip THEN KeptWithout(r, skip, s + 1, kept)
    ELSE KeptWithout(r, skip, s + 1,
                     Dedup(kept.all_checks, kept.seen_check_numbers,
                           section_checks(sections[r][s], processed[r][s].col_map)))
ResultWithout(r, skip) ==
    sort_checks(KeptWithout(r, skip, 1, [all_checks |-> <<>>, seen_check_numbers |-> {}]))

\* C17: a section whose mapping has no identifier column (the classifier gave
\* none, or it failed and the fallback found none) contributes no record and
\* raises nothing; every other section is still processed, and parse_statement
\* returns what it returns for the statement without that section.
C17_NullIdentifierSectionIgnored ==
    \A r \in Runs :
        /\ \A s \in NoIdentifier(r) : processed[r][s].checks = <<>>
        /\ spc[r] = "done" /\ sections[r] # <<>> =>
              /\ Len(processed[r]) = Len(sections[r])
              /\ result[r] = ResultWithout(r, NoIdentifier(r))
\* A run of two sections: the first, whose rows carry identifiers, got a
\* mapping without identifier; the second gave the records that are returned
C17_Witness ==
    \E r \in Runs :
        /\ spc[r] = "done" /\ Len(processed[r]) = 2
        /\ NoIdentifier(r) = {1}
        /\ \E i \in 1..Len(sections[r][1].rows) : ~IsPlaceholder(sections[r][1].rows[i][1])
        /\ processed[r][2].checks # <<>>
        /\ result[r] = sort_checks(processed[r][2].checks)

\* The data rows of a section whose cell in column col (1-based) is a valid
\* identifier, in row order
ValidRows(rows, col) ==
    FilterIdx([i \in 1..Len(rows) |-> i],
              {i \in 1..Len(rows) : ~IsPlaceholder(rows[i][col])}, 1)

\* C18 (as stated): for a section whose identifier role is mapped to a column,
\* parse_csv_section returns exactly one record per data row whose identifier
\* cell is valid, in row order; a date that matches no format or an amount that
\* is not a number is None in the record, and no row is dropped for it.
C18_OneRecordPerValidRow ==
    \A r \in Runs : \A s \in 1..Len(processed[r]) :
        LET p == processed[r][s]
            rows == sections[r][s].rows
            kept_rows == ValidRows(rows, p.col_map.check_number.v + 1)
        IN  p.col_map.check_number.t = "int" =>
                /\ Len(p.checks) = Len(kept_rows)
                /\ \A k \in 1..Len(p.checks) :
                      p.checks[k].check_number
                          = Strip(rows[kept_rows[k]][p.col_map.check_number.v + 1])


\* C24: the mapping produced by _fallback_mapping never assigns the same
\* column index to two different roles (identifier, date, amount), whatever
\* the column names and the samples of the section are.
C24_RolesDistinct ==
    \A r \in Runs : FallbackUsed(r) =>
        /\ col_map[r].check_number # JNull => col_map[r].check_number # col_map[r].date
        /\ col_map[r].check_number # JNull => col_map[r].check_number # col_map[r].amount
        /\ col_map[r].date # JNull => col_map[r].date # col_map[r].amount

-----------------------------------------------------------------------------
(*************************** claims: image path ****************************)

\* The float literals of the statements about the confidence and the quality
Float0_2 == float("0.2")
Float0_6 == float("0.6")
Float0_18 == float("0.18")
Float0_8 == float("0.8")
Float0_86 == float("0.86")
Float0_98 == float("0.98")
Float1 == float("1.0")
\* lo <= x <= hi for doubles
Within(x, lo, hi) == ~DoubleLess(x, lo) /\ ~DoubleLess(hi, x)

\* C5: calculate_confidence returns a value within [0, 0.98] for every payee
\* string and check-number string, and exactly 0.2 when both are "Not found".
C5_ConfidenceBounded ==
    opc = "done" =>
        /\ Within(confidence, Zero(1), Float0_98)
        /\ (payee_name = NotFound /\ check_number = NotFound) => confidence = Float0_2
C5_Witness ==
    /\ opc = "done" /\ payee_name = NotFound /\ check_number = NotFound
    /\ confidence = Float0_2

\* C6: clean_payee_name is idempotent: cleaning a cleaned candidate changes nothing.
C6_CleanIdempotent == cpc = "done" => recleaned = cleaned

\* The lines of the OCR text, and where the scenario line of C7 stands among them
OcrLines == TextLines(full_text)
AcmeAt == {i \in 1..Len(OcrLines) : OcrLines[i] = AcmeLine}

\* C7 (as stated): with the line "PAY TO THE ORDER OF ACME SUPPLY CO." in the text,
\* strategy 1 returns "ACME SUPPLY CO.", the trailing period kept.
C7_PeriodKept ==
    (opc = "payee" /\ AcmeAt # {}) => (strategy = 1 /\ payee_name = "ACME SUPPLY CO.")

\* C7 (amended): with that line in the text the payee comes from strategy 1, and
\* unless an earlier line already gives a valid same-line-after-OF candidate it
\* is "ACME SUPPLY CO": cleaning strips the trailing period.
C7_PeriodStripped ==
    (opc = "payee" /\ AcmeAt # {}) =>
        /\ strategy = 1
        /\ (\A j \in 1..(MinOf(AcmeAt) - 1) :
                ~(HasOfWord(OcrLines[j]) /\ is_valid_payee(Strategy1Cand(OcrLines[j]))))
            => payee_name = "ACME SUPPLY CO"
C7_Witness ==
    opc = "payee" /\ AcmeAt # {} /\ strategy = 1 /\ payee_name = "ACME SUPPLY CO"

\* The tokens of texts[1:] whose text is entirely 4-5 digits, with 4 vertices or more
DigitTokens ==
    {i \in 2..Len(texts) :
        /\ Len(texts[i].description) \in {4, 5}
        /\ AllChars(texts[i].description, Digits)
        /\ Len(texts[i].vertices) >= 4}
NoStandaloneNumber ==
    \A k \in 1..Min2(10, Len(OcrLines)) :
        ~(Len(OcrLines[k]) \in {4, 5} /\ AllChars(OcrLines[k], Digits))

\* C8: when none of the first 10 lines is a standalone 4-5 digit number, the
\* returned text is that of the digit token with the smallest minY and, among
\* those with that minY, the largest maxX.
C8_TopmostThenRightmost ==
    (opc = "number" /\ NoStandaloneNumber /\ DigitTokens # {}) =>
        \E i \in DigitTokens :
            /\ check_number = texts[i].description
            /\ \A j \in DigitTokens :
                  /\ min_y(texts[i]) <= min_y(texts[j])
                  /\ min_y(texts[j]) = min_y(texts[i]) => max_x(texts[j]) <= max_x(texts[i])
\* four digit tokens, two of them sharing the smallest minY with different maxX
C8_Witness ==
    /\ opc = "number" /\ NoStandaloneNumber /\ strategy = 2
    /\ Cardinality(DigitTokens) = 4
    /\ \E i, j, k \in DigitTokens :
          /\ check_number = texts[i].description
          /\ min_y(texts[j]) = min_y(texts[i]) /\ max_x(texts[j]) < max_x(texts[i])
          /\ min_y(texts[k]) > min_y(texts[i])
          /\ i > j

\* s ends in a comma, optional whitespace, two capital letters and an optional
\* 5-digit ZIP (after optional whitespace)
EndsInCityState(s) ==
    \E k \in 1..Len(s) :
        LET rest == Drop(s, k)
            tail == Drop(rest, LeadRun(rest, 1, Spaces))
            mid == SubSeq(tail, 3, Len(tail) - 5)
        IN  /\ At(s, k) = ","
            /\ Len(tail) >= 2
            /\ AllChars(Take(tail, 2), UpperAZ)
            /\ \/ Len(tail) = 2
               \/ /\ Len(tail) >= 7
                  /\ AllChars(mid, Spaces)
                  /\ AllChars(Drop(tail, Len(tail) - 5), Digits)

\* C9: is_valid_payee rejects every candidate whose uppercased form ends in
\* "CITY, ST" or "CITY, ST ZIP", and extract_payee_name never returns one.
C9_LocationRejected ==
    /\ (cpc \in {"validated", "cleaned", "done"} /\ EndsInCityState(Upper(cand)))
            => valid = FALSE
    /\ opc = "payee" => ~EndsInCityState(Upper(payee_name))
C9_Witness ==
    /\ cpc = "validated" /\ EndsInCityState(Upper(cand)) /\ HasChar(cand, Letters)
    /\ cand = "ACME, CA 92335" /\ valid = FALSE

\* C19: extract_payee_name applies its four strategies in strict priority
\* order over the whole text.  The result comes from strategy k only if no
\* strategy before k has a valid candidate on any line; it is then the
\* candidate of the first line strategy k accepts.  The token strategy is
\* consulted only when the three text strategies found nothing, and
\* "Not found" is returned only when it found nothing either.
C19_StrictPriority ==
    opc = "payee" =>
        /\ Strategy1Hits(OcrLines) # {} =>
              /\ strategy = 1
              /\ payee_name = Strategy1Cand(OcrLines[MinOf(Strategy1Hits(OcrLines))])
        /\ Strategy1Hits(OcrLines) = {} /\ Strategy2Hits(OcrLines) # {} =>
              /\ strategy = 2
              /\ payee_name = Strategy2Cand(OcrLines, MinOf(Strategy2Hits(OcrLines)))
        /\ strategy >= 3 \/ strategy = 0 =>
              Strategy1Hits(OcrLines) = {} /\ Strategy2Hits(OcrLines) = {}
        /\ strategy = 3 =>
              payee_name = clean_payee_name(OcrLines[MinOf(Strategy3Hits(OcrLines))])
        /\ strategy = 4 \/ strategy = 0 => Strategy3Hits(OcrLines) = {}
        /\ strategy = 4 => Len(texts) > 1 /\ payee_name = extract_payee_spatial(texts)
        /\ strategy = 0 =>
              /\ payee_name = NotFound
              /\ Len(texts) <= 1 \/ extract_payee_spatial(texts) = None
\* The line before a standalone OF is a valid payee on line 1, the text after
\* OF is a valid payee on line 3, and the tokens would give a payee too: the
\* same-line candidate of the later line is returned
C19_Witness ==
    /\ opc = "payee"
    /\ Strategy2Hits(OcrLines) # {} /\ Strategy1Hits(OcrLines) # {}
    /\ MinOf(Strategy2Hits(OcrLines)) < MinOf(Strategy1Hits(OcrLines))
    /\ Len(texts) > 1 /\ extract_payee_spatial(texts) # None
    /\ strategy = 1 /\ payee_name = "ACME SUPPLY CO"

\* The standalone numbers among the first ten non-empty lines of the OCR text
FirstTenNumbers ==
    {i \in 1..Len(OcrLines) : i <= 10 /\ IsCheckDigits(OcrLines[i])}
\* The tokens that qualify for the spatial strategy
NumberTokens ==
    IF Len(texts) > 1 THEN check_candidates(texts) ELSE <<>>

\* C20: extract_check_number applies its strategies in order, first hit wins.
\* If one of the first 10 non-empty trimmed lines is entirely 4-5 digits, the
\* first such line is returned whatever the tokens are; a standalone number on
\* line 11 or later is not found by strategy 1.  The DATE pattern is used only
\* if no token qualifies for the spatial strategy, and the MICR pattern of the
\* last line only if the three strategies before it found nothing.
C20_FirstHitWins ==
    opc = "number" =>
        /\ FirstTenNumbers # {} =>
              strategy = 1 /\ check_number = OcrLines[MinOf(FirstTenNumbers)]
        /\ strategy = 1 => FirstTenNumbers # {}
        /\ FirstTenNumbers = {} /\ NumberTokens # <<>> => strategy = 2
        /\ strategy = 2 => FirstTenNumbers = {} /\ NumberTokens # <<>>
        /\ strategy = 3 \/ strategy = 4 \/ strategy = 0 =>
              FirstTenNumbers = {} /\ NumberTokens = <<>>
        /\ strategy = 3 => CheckStrategy3Hits(OcrLines) # {}
        /\ strategy = 4 \/ strategy = 0 => CheckStrategy3Hits(OcrLines) = {}
        /\ strategy = 0 => check_number = NotFound
\* The 11th line is the standalone number 1234 and the 10th line has 12345
\* before DATE; a token qualifies, so the token's number is returned
C20_Witness ==
    /\ opc = "number"
    /\ Len(OcrLines) = 11 /\ OcrLines[11] = "1234" /\ FirstTenNumbers = {}
    /\ CheckStrategy3Hits(OcrLines) # {}
    /\ NumberTokens # <<>>
    /\ strategy = 2 /\ check_number = NumberTokens[1].description

\* clamp(x, 0, 0.98) for a double x, and the payee quality that counts: 0.0
\* for the sentinel
Clamp980(x) ==
    IF DoubleLess(x, Zero(1)) THEN Zero(1) ELSE IF DoubleLess(Float0_98, x) THEN Float0_98 ELSE x
CountedQuality ==
    IF payee_name # NotFound THEN score_payee_quality(payee_name) ELSE Zero(1)
\* b: 0.18 for a found check number, 0.0 for the sentinel
CheckBonus == IF check_number # NotFound THEN Float0_18 ELSE Zero(1)
\* The confidence of the same payee with the sentinel for a check number
NotFoundConfidence ==
    Clamp980(DoubleAdd(Float0_2, DoubleMul(Float0_6, CountedQuality)))

SuffixBonus(s) ==
    IF \E suf \in suffixes : EndsWith(Upper(s), suf) THEN float("0.45") ELSE Zero(1)
WordsBonus(s) == IF Len(SplitWs(s)) >= 2 THEN Float0_2 ELSE Zero(1)
LengthBonus(s) == IF Len(s) \in 5..40 THEN float("0.15") ELSE Zero(1)
DigitPenalty(s) ==
    IF \E i \in 1..Len(s) : IsDigit(At(s, i)) THEN float("0.35") ELSE Zero(1)
LocationPenalty(s) == IF HasLocationSuffix(Upper(s)) THEN float("0.5") ELSE Zero(1)
NumberWords(s) ==
    {k \in 1..Len(SplitWs(s)) :
        StripBy(Upper(SplitWs(s)[k]), {".", ","}) \in amount_words}
NumberWordsPenalty(s) ==
    IF 2 * Cardinality(NumberWords(s)) >= Len(SplitWs(s)) THEN float("0.5") ELSE Zero(1)
CapsPenalty(s) ==
    IF (\E i \in 1..Len(s) : IsAlpha(At(s, i))) /\ ~(\E i \in 1..Len(s) : At(s, i) \in LowerAZ)
    THEN float("0.05") ELSE Zero(1)
\* a - b
Minus(a, b) == DoubleAdd(a, Neg(b))
\* The float sum of the terms, taken from left to right in the order of the
\* statement
QualitySum(s) ==
    Minus(Minus(Minus(Minus(
        DoubleAdd(DoubleAdd(SuffixBonus(s), WordsBonus(s)), LengthBonus(s)),
        DigitPenalty(s)), LocationPenalty(s)), NumberWordsPenalty(s)), CapsPenalty(s))
\* clamp(x, 0, 1)
Clamp01(x) ==
    IF DoubleLess(x, Zero(1)) THEN Zero(1) ELSE IF DoubleLess(Float1, x) THEN Float1 ELSE x

\* C22: for every payee string score_payee_quality is a value in [0, 1], the
\* clamp of the sum of +0.45 (the uppercased string ends with a business
\* suffix), +0.2 (two words or more), +0.15 (length 5 to 40), -0.35 (a digit),
\* -0.5 (ends in CITY, ST[ ZIP]), -0.5 (at least half of the words are number
\* words) and -0.05 (letters but no lowercase letter), taken on the trimmed
\* string; calculate_confidence adds 0.6 times that value for a found payee.
\* The sum is the float sum, the terms added in this order.
C22_QualityIsClampedSum ==
    opc = "done" /\ payee_name # NotFound =>
        /\ score_payee_quality(payee_name) = Clamp01(QualitySum(Strip(payee_name)))
        /\ Within(score_payee_quality(payee_name), Zero(1), Float1)
        /\ confidence =
               DoubleAdd(DoubleAdd(Float0_2,
                             DoubleMul(Float0_6, Clamp01(QualitySum(Strip(payee_name))))),
                         IF check_number \notin {"", NotFound} THEN Float0_18 ELSE Zero(1))
\* "ACME CO": suffix, two words and length, less the capitals penalty
C22_Witness ==
    /\ opc = "done" /\ payee_name = "ACME CO"
    /\ QualitySum(payee_name) = float("0.75")
    /\ ~DoubleLess(confidence, float("0.6499999999999999"))


\* A token lies strictly left of the anchor and its vertical center is strictly
\* within 0.8 anchor heights of the anchor's vertical center
LeftAligned(t, anchor) ==
    /\ max_x(t) < min_x(anchor)
    /\ 5 * Abs(center_y2(t) - center_y2(anchor)) < 8 * height(anchor)
\* Neither a stop word, nor numeric-looking, nor a single character
Wordlike(t) ==
    /\ Upper(t.description) \notin exclude_words
    /\ ~LooksNumeric(t.description)
    /\ Len(t.description) > 1
\* The tokens of a list that may enter the candidate, the anchor being the
\* first OF token of that list
Surviving(toks) ==
    LET ofs == Filter(toks, LAMBDA t : Upper(t.description) = "OF")
    IN  IF ofs = <<>> THEN <<>>
        ELSE Filter(toks, LAMBDA t : LeftAligned(t, ofs[1]) /\ Wordlike(t))
\* At most four tokens, those with the greatest minX, joined by single spaces
\* in ascending minX order
RightmostFour(toks) ==
    LET sorted == SortStable(toks, LAMBDA u, v : min_x(u) < min_x(v))
        last4 == LastN(sorted, 4)
    IN  Join([k \in 1..Len(last4) |-> last4[k].description], " ")
\* texts[1:] as the claim reads it, and restricted to what the code admits:
\* tokens with at least 4 vertices whose text does not start with "$"
StatedTokens == Surviving(Tail(texts))
AdmittedTokens ==
    Surviving(Filter(Tail(texts), LAMBDA t :
        Len(t.vertices) >= 4 /\ ~StartsWith(t.description, "$")))
\* The token strategy was reached: the three text strategies found nothing
TokensDecide == opc = "payee" /\ strategy \in {0, 4} /\ Len(texts) > 1

\* C23 as stated: the spatial candidate is made of the (at most four,
\* rightmost, in ascending minX order) tokens of texts[1:] that lie strictly
\* left of the first OF token, are vertically aligned with it, and are not
\* stop words, numeric-looking or single characters; cleaned and validated,
\* it is what the token strategy returns.
C23_StatedTokensOnly ==
    TokensDecide =>
        LET payee == clean_payee_name(Strip(RightmostFour(StatedTokens)))
        IN  /\ strategy = 4 <=> StatedTokens # <<>> /\ is_valid_payee(payee)
            /\ strategy = 4 => payee_name = payee
\* C23: the same, the tokens being those of texts[1:] that have at least 4
\* vertices and do not start with "$" (the anchor is the first OF among them).
\* The first element of texts never contributes.
C23_SpatialCandidate ==
    TokensDecide =>
        LET payee == clean_payee_name(Strip(RightmostFour(AdmittedTokens)))
        IN  /\ strategy = 4 <=> AdmittedTokens # <<>> /\ is_valid_payee(payee)
            /\ strategy = 4 => payee_name = payee
\* Six words qualify left of OF and the first element of texts would qualify
\* too: the four rightmost words are returned in left-to-right order
C23_Witness ==
    /\ opc = "payee" /\ strategy = 4
    /\ Len(AdmittedTokens) = 6
    /\ Wordlike(texts[1]) /\ LeftAligned(texts[1], Tok("OF", 50, 10, 60, 20))
    /\ payee_name = "ACME AND SUPPLY SONS"


\* The sum calculate_confidence forms before it clamps
UnclampedSum ==
    DoubleAdd(DoubleAdd(Float0_2, DoubleMul(Float0_6, CountedQuality)),
              IF check_number \notin {"", NotFound} THEN Float0_18 ELSE Zero(1))

\* C25: the value returned by calculate_confidence is always within
\* [0.2, 0.86]; the 0.98 ceiling is never reached and the clamp never changes
\* the sum, because score_payee_quality never exceeds 0.8.
C25_ConfidenceRange ==
    opc = "done" =>
        /\ Within(score_payee_quality(payee_name), Zero(1), Float0_8)
        /\ Within(UnclampedSum, Float0_2, Float0_86)
        /\ DoubleLess(confidence, Float0_98)
        /\ confidence = UnclampedSum
\* The largest value: a payee of quality 0.8 with a check number gives the
\* float sum 0.2 + 0.6 * 0.8 + 0.18 = 0.8599999999999999
C25_Witness ==
    /\ opc = "done"
    /\ payee_name = "Supply Company" /\ check_number = "12345"
    /\ score_payee_quality(payee_name) = Float0_8
    /\ confidence = float("0.8599999999999999")


\* C26: every value returned by extract_payee_name is either the sentinel
\* "Not found" or a string that passes is_valid_payee, whichever of the four
\* strategies produced it; the sentinel is returned exactly when no strategy
\* produced a value.
C26_ResultValidOrSentinel ==
    opc = "payee" =>
        /\ payee_name = NotFound \/ is_valid_payee(payee_name)
        /\ strategy = 0 <=> payee_name = NotFound
        /\ strategy \in 1..4 => is_valid_payee(payee_name)
\* The text after OF on the first line is a location and is rejected, the
\* first line itself is skipped by the mid-document strategy, and the second
\* line is returned as a valid payee
C26_Witness ==
    /\ opc = "payee"
    /\ full_text = "ORDER OF FONTANA, CA 92335\nJOHN SMITH"
    /\ ~is_valid_payee(clean_payee_name("FONTANA, CA 92335"))
    /\ strategy = 3 /\ payee_name = "JOHN SMITH" /\ is_valid_payee(payee_name)


\* C27: every value returned by extract_check_number is either the sentinel
\* "Not found" or a string of exactly 4 or 5 decimal digits, whichever of the
\* four strategies produced it; the sentinel is returned exactly when no
\* strategy produced a value.
C27_NumberDigitsOrSentinel ==
    opc = "number" =>
        /\ \/ check_number = NotFound
           \/ Len(check_number) \in {4, 5} /\ AllChars(check_number, Digits)
        /\ strategy = 0 <=> check_number = NotFound
\* The last line holds a 7-digit MICR field with two leading zeros and nothing
\* else gives a number: the 5 digits after the zeros are returned
C27_Witness ==
    /\ opc = "number"
    /\ full_text = "PAY TO\n^0012345^"
    /\ strategy = 4 /\ check_number = "12345"


-----------------------------------------------------------------------------
(********************** claims: image fetch and upload **********************)

\* C28: in fetch_images.main the OCR result of the task queued for check N
\* is written (payee_name, confidence, source) only to the row whose Check
\* Number is N, whatever check number the OCR read from the image.
C28_OcrWritesOwnRow ==
    \A w \in ocr_writes : Strip(fetch_df[w.row].number) = w.task

\* C29: in fetch_images.main the capture block and the update of the image
\* paths are reached for a row only if the record link of that row's check
\* was clicked during one of the search attempts made for that row; a row
\* whose attempts all end before the table search is skipped, whatever
\* happened for earlier rows.
C29_CaptureOnlyAfterClick ==
    /\ reached \subseteq clicked
    /\ updated \subseteq clicked

\* C30: whenever a request to seed_checks has ended (200, 400 or 500), no
\* temporary file temp_<statement_id>.csv is left on disk.
C30_TempFileRemoved ==
    qpc = "done" => \A id \in StatementIds : temp_path(id) \notin disk

=============================================================================
